---------------------------- MODULE Spec2Model ----------------------------
(***************************************************************************)
(* Model of jrm's Runtime class (src/src/runtime.ts): the on-disk store of *)
(* installed versions and aliases of one runtime kind, the per-shell       *)
(* multishell directory, and the operations install, use, alias, unalias.  *)
(*                                                                         *)
(* Strings are atoms of a finite universe; what the semver library says    *)
(* about each of them is tabulated in SemverParse / RangeParse, and every  *)
(* comparison, filter and sort is computed from the parsed form.           *)
(* A directory entry or a raw remote tag is a pair <<prefix, rest>> so     *)
(* that `v${version}` and .replace(/^v/, "") are real conversions.         *)
(***************************************************************************)
EXTENDS Integers, Sequences, FiniteSets, TLC

\* Cap on the number of version directories the Installer can create.
MaxInstalled == 3

-----------------------------------------------------------------------------
(* The semver library, on the strings of the model                          *)

VersionStrings == {"1.0.0", "2.0.0", "2.1.0", "3.0.0", "3.0.0-beta.1"}

CaretStrings == {"^2.0.0", "^2.1.0", "^3.0.0"}

\* Further version strings, met as names in directory listings only.
ListedStrings == {"9.0.0", "10.0.0"}

AliasNames == {"default", "lts"}

\* Strings that are neither a version nor a range.
NameStrings == AliasNames \cup {"nightly"}

\* semver.parse(s) for a valid version string.
SemverParse(s) ==
  CASE s = "1.0.0" -> [major |-> 1, minor |-> 0, patch |-> 0, prerelease |-> <<>>]
    [] s = "2.0.0" -> [major |-> 2, minor |-> 0, patch |-> 0, prerelease |-> <<>>]
    [] s = "2.1.0" -> [major |-> 2, minor |-> 1, patch |-> 0, prerelease |-> <<>>]
    [] s = "3.0.0" -> [major |-> 3, minor |-> 0, patch |-> 0, prerelease |-> <<>>]
    [] s = "3.0.0-beta.1" ->
         [major |-> 3, minor |-> 0, patch |-> 0, prerelease |-> <<"beta", 1>>]
    [] s = "9.0.0" -> [major |-> 9, minor |-> 0, patch |-> 0, prerelease |-> <<>>]
    [] s = "10.0.0" -> [major |-> 10, minor |-> 0, patch |-> 0, prerelease |-> <<>>]

\* semver.valid(s) is truthy.
SemverValid(s) == s \in VersionStrings \cup ListedStrings

\* The comparator set of a valid range string: a caret range ^M.m.p, or a
\* bare version taken as an exact range.
RangeParse(s) ==
  CASE s = "^2.0.0" -> [op |-> "^", base |-> "2.0.0"]
    [] s = "^2.1.0" -> [op |-> "^", base |-> "2.1.0"]
    [] s = "^3.0.0" -> [op |-> "^", base |-> "3.0.0"]
    [] s \in VersionStrings \cup ListedStrings -> [op |-> "=", base |-> s]

\* semver.validRange(s) is truthy.
SemverValidRange(s) == s \in CaretStrings \cup VersionStrings \cup ListedStrings

Sign(n) == IF n < 0 THEN -1 ELSE IF n > 0 THEN 1 ELSE 0

\* Precedence of prerelease tags: none is higher than any; the model holds
\* at most one tag per major.minor.patch, so two tags are compared only
\* when they are equal.
ComparePre(p, q) ==
  IF p = q THEN 0
  ELSE IF Len(p) = 0 THEN 1
  ELSE IF Len(q) = 0 THEN -1
  ELSE Sign(Len(p) - Len(q))

\* semver.compare(x, y) on version strings: -1, 0 or 1.
SemverCompare(x, y) ==
  LET a == SemverParse(x)
      b == SemverParse(y)
  IN  IF a.major # b.major THEN Sign(a.major - b.major)
      ELSE IF a.minor # b.minor THEN Sign(a.minor - b.minor)
      ELSE IF a.patch # b.patch THEN Sign(a.patch - b.patch)
      ELSE ComparePre(a.prerelease, b.prerelease)

\* Mutation of SemverSatisfies: the caret range has no upper bound.
SemverSatisfiesNoUpper(version, range) ==
  /\ SemverValid(version)
  /\ SemverValidRange(range)
  /\ LET r == RangeParse(range)
     IN  IF r.op = "=" THEN SemverCompare(version, r.base) = 0
         ELSE /\ Len(SemverParse(version).prerelease) = 0
              /\ SemverCompare(version, r.base) >= 0

\* semver.satisfies(version, range), prereleases not included: an exact
\* range is met by that version only; ^M.m.p (M > 0) by the releases
\* >= M.m.p with the same major.
SemverSatisfies(version, range) ==
  /\ SemverValid(version)
  /\ SemverValidRange(range)
  /\ LET r == RangeParse(range)
     IN  IF r.op = "=" THEN SemverCompare(version, r.base) = 0
         ELSE /\ Len(SemverParse(version).prerelease) = 0
              /\ SemverCompare(version, r.base) >= 0
              /\ SemverParse(version).major = SemverParse(r.base).major

-----------------------------------------------------------------------------
(* Sequences                                                                *)

Range(s) == {s[i] : i \in DOMAIN s}

\* Array.prototype.filter
Filter(s, Keep(_)) == SelectSeq(s, Keep)

\* Insert x into a sequence sorted in descending precedence, after the
\* elements that compare equal (the sort is stable).
RECURSIVE InsertDesc(_, _)
InsertDesc(x, s) ==
  IF s = <<>> THEN <<x>>
  ELSE IF SemverCompare(x, Head(s)) > 0 THEN <<x>> \o s
  ELSE <<Head(s)>> \o InsertDesc(x, Tail(s))

\* .sort((x, y) => semver.compare(y, x)): descending semver precedence.
RECURSIVE SortDesc(_)
SortDesc(s) ==
  IF s = <<>> THEN <<>>
  ELSE InsertDesc(s[Len(s)], SortDesc(SubSeq(s, 1, Len(s) - 1)))

\* Array.prototype.find, as the set holding the first match (empty: none).
FindFirst(s, Test(_)) ==
  LET hits == {i \in DOMAIN s : Test(s[i])}
  IN  IF hits = {} THEN {}
      ELSE {s[CHOOSE i \in hits : \A j \in hits : i <= j]}

\* Some enumeration of a finite set as a sequence (the order of readdir).
RECURSIVE SeqOf(_)
SeqOf(S) ==
  IF S = {} THEN <<>>
  ELSE LET x == CHOOSE y \in S : TRUE IN <<x>> \o SeqOf(S \ {x})

-----------------------------------------------------------------------------
(* Paths, directory entries, typed answers                                  *)

\* The name `v${version}` of a version's directory.
VersionDirName(version) == <<"v", version>>

\* name.replace(/^v/, "")
StripV(name) == name[2]

\* A symlink that is not there.
NoLink == <<>>

\* Values of JRM_MULTISHELL_PATH_OF_<KIND>: a path is its sequence of
\* segments, an absolute one starting with the root.
SessionPaths == {<<"/", "ms1">>}

EnvValues == {<<>>, <<"rel", "ms">>} \cup SessionPaths

\* path.isAbsolute
IsAbsolute(p) == Len(p) > 0 /\ p[1] = "/"

\* Lines typed at the prompt, as sequences of characters.
RawAnswers ==
  {<<"y">>, <<" ", "Y", "E", "S", " ">>, <<"n">>, <<>>, <<"y", "e">>}

\* The white space String.prototype.trim removes.
WhiteSpace == {" ", "\n"}

RECURSIVE TrimStart(_)
TrimStart(s) ==
  IF s # <<>> /\ Head(s) \in WhiteSpace THEN TrimStart(Tail(s)) ELSE s

RECURSIVE TrimEnd(_)
TrimEnd(s) ==
  IF s # <<>> /\ s[Len(s)] \in WhiteSpace THEN TrimEnd(SubSeq(s, 1, Len(s) - 1)) ELSE s

\* String.prototype.trim
Trim(s) == TrimEnd(TrimStart(s))

LowerChar(c) ==
  CASE c = "Y" -> "y"
    [] c = "E" -> "e"
    [] c = "S" -> "s"
    [] c = "N" -> "n"
    [] OTHER -> c

\* String.prototype.toLowerCase
ToLowerCase(s) == [i \in DOMAIN s |-> LowerChar(s[i])]

\* Mutation of Ask: the answer is returned as typed.
AskUntrimmed(typed) == typed

\* ask(question): the typed line, trimmed.
Ask(typed) == Trim(typed)

\* Mutation of Accepted: the empty answer counts as yes.
AcceptedByDefault(installAnswer) ==
  ToLowerCase(installAnswer) \in {<<"y">>, <<"y", "e", "s">>, <<>>}

\* ["y", "yes"].includes(installAnswer.toLowerCase())
Accepted(installAnswer) ==
  ToLowerCase(installAnswer) \in {<<"y">>, <<"y", "e", "s">>}

\* What the remote may list: raw tags, with or without the v, in any order.
RemoteLists ==
  { << <<"v", "3.0.0-beta.1">>, <<"v", "3.0.0">>, <<"v", "2.1.0">>,
       <<"v", "2.0.0">>, <<"v", "1.0.0">> >>,
    << <<"", "2.0.0">>, <<"v", "3.0.0-beta.1">>, <<"v", "2.1.0">> >>,
    << >> }

\* getRemoteVersionsRaw rejects: the fetch of the tag list threw, or the
\* body it was answered with is no JSON.  Written as a list that is no list
\* of tags.
FetchFailed == << <<"TypeError", "fetch failed">> >>

\* What the Detector may return: nothing, or a range with or without onFail.
OnFailValues == {"", "download", "error", "warn", "ignore"}

DetectResults ==
  {[found |-> FALSE, versionRange |-> "", onFail |-> ""]}
    \cup [found : {TRUE}, versionRange : {"^2.0.0", "^3.0.0"}, onFail : OnFailValues]

-----------------------------------------------------------------------------
VARIABLES
  versionsDir,     \* entries of <home>/<kind>/versions
  aliases,         \* alias name -> target of the symlink in aliases/, or NoLink
  multishells,     \* session path -> what is at that path
  remoteRaw,       \* what getRemoteVersionsRaw returns
  pc,              \* position of the running operation
  multishellPath,  \* use: value of the environment variable
  request,         \* use: versionOrAlias ("" when absent)
  versionRange,    \* use: resolved range ("" when undefined)
  onFail,          \* use: onFail of the detection result ("" when absent)
  defaultVersion,  \* use: version of the default alias at init ("" when none)
  targetVersion,   \* use: chosen remote version
  ret,             \* outcome of the operation that has finished
  versionArg,      \* alias, uninstall: the version argument ("" otherwise)
  log,             \* calls the running operation made to its collaborators
  entry,           \* the store as the running operation found it
  fsDirs,          \* Detector: directory -> its version file and package.json
  startDir,        \* Detector: the directory detectVersionRange was called with
  currentDir,      \* Detector: the directory being looked at
  detectPc,        \* Detector: position of the running detection
  detectResult,    \* Detector: what detectVersionRange has returned
  consulted,       \* Detector: the files looked for so far, in order
  parked,          \* the locals of the process that is not running
  self             \* the process that is running

store == <<versionsDir, aliases>>

locals == <<multishellPath, request, versionRange, onFail, defaultVersion, targetVersion>>

vars == <<versionsDir, aliases, multishells, remoteRaw, pc, multishellPath,
          request, versionRange, onFail, defaultVersion, targetVersion,
          versionArg, ret, log, entry, fsDirs, startDir, currentDir, detectPc,
          detectResult, consulted, parked, self>>

\* The state of a detection.
detVars == <<fsDirs, startDir, currentDir, detectPc, detectResult, consulted>>

\* The processes other than the one whose locals the module's variables are.
procVars == <<parked, self>>

Absent == [kind |-> "absent", target |-> NoLink]

Placeholders == [kind |-> "placeholders", target |-> NoLink]

NoRet == [op |-> "none", status |-> "none", value |-> "", error |-> ""]

Returned(o, v) == [op |-> o, status |-> "returned", value |-> v, error |-> ""]

Threw(o, e) == [op |-> o, status |-> "threw", value |-> "", error |-> e]

-----------------------------------------------------------------------------
(* Private helpers of Runtime                                               *)

\* exists(path) on a symlink with this target: the link is there and what
\* it points to is there (the path is accessed through the link).
Exists(link, dir) == link # NoLink /\ link \in dir

AliasLink(als, name) == IF name \in DOMAIN als THEN als[name] ELSE NoLink

\* Mutation of GetVersionBySymlink: the v of the directory name is kept.
GetVersionBySymlinkKeepV(link) == link[1] \o link[2]

\* getVersionBySymlink: basename of the real path, without the v.
GetVersionBySymlink(link) == StripV(link)

\* A versions directory that is not there, written as a set that no
\* listing of a directory equals.
NoDirectory == {<<"ENOENT", "">>}

\* fs.readdir(dir).catch(() => []): the entries in some order, and none
\* when the directory is not there.
Readdir(dir) == IF dir = NoDirectory THEN <<>> ELSE SeqOf(dir)

\* The place of a version string in the order of strings.
LexRank(s) ==
  CASE s = "1.0.0" -> 1
    [] s = "10.0.0" -> 2
    [] s = "2.0.0" -> 3
    [] s = "2.1.0" -> 4
    [] s = "3.0.0" -> 5
    [] s = "3.0.0-beta.1" -> 6
    [] s = "9.0.0" -> 7

\* Mutation of GetInstalledVersions: sorted as strings, descending.
GetInstalledVersionsLexicographic(dir) ==
  LET files == Readdir(dir)
      vs    == Filter(files, LAMBDA file : file[1] = "v")
      names == [i \in DOMAIN vs |-> StripV(vs[i])]
      valid == Range(Filter(names, SemverValid))
  IN  [i \in 1..Cardinality(valid) |->
         CHOOSE x \in valid :
           Cardinality({y \in valid : LexRank(y) > LexRank(x)}) = i - 1]

\* Mutation of GetInstalledVersions: the directory order, not sorted.
GetInstalledVersionsUnsorted(dir) ==
  LET files == SeqOf(dir)
      vs    == Filter(files, LAMBDA file : file[1] = "v")
      names == [i \in DOMAIN vs |-> StripV(vs[i])]
  IN  Filter(names, SemverValid)

\* getInstalledVersions: the v-entries that are valid semver, descending.
GetInstalledVersions(dir) ==
  LET files == Readdir(dir)
      vs    == Filter(files, LAMBDA file : file[1] = "v")
      names == [i \in DOMAIN vs |-> StripV(vs[i])]
  IN  SortDesc(Filter(names, SemverValid))

\* Mutation of GetRemoteVersions: prereleases are kept.
GetRemoteVersionsWithPre(raw) ==
  LET names == [i \in DOMAIN raw |-> StripV(raw[i])]
  IN  SortDesc(Filter(names, SemverValid))

\* Mutation of GetRemoteVersions: the order of the remote, not sorted.
GetRemoteVersionsUnsorted(raw) ==
  LET names == [i \in DOMAIN raw |-> StripV(raw[i])]
  IN  Filter(names,
        LAMBDA version : SemverValid(version)
                           /\ Len(SemverParse(version).prerelease) = 0)

\* getRemoteVersions: the raw tags without the v, prereleases dropped,
\* descending.
GetRemoteVersions(raw) ==
  LET names == [i \in DOMAIN raw |-> StripV(raw[i])]
  IN  SortDesc(Filter(names,
        LAMBDA version : SemverValid(version)
                           /\ Len(SemverParse(version).prerelease) = 0))

\* createVersionSymlink(version, source): the target of the link that is at
\* source afterwards, whatever was there before.
CreateVersionSymlink(version) == VersionDirName(version)

\* Mutation of SessionLink: the link names the version without the v.
SessionLinkNoV(version) == [kind |-> "link", target |-> <<"", version>>]

\* A session path after createVersionSymlink(version, multishellPath).
SessionLink(version) == [kind |-> "link", target |-> CreateVersionSymlink(version)]

\* fs.rm(source, { recursive: true }) with its error ignored: whatever was
\* at the path, a link, a directory of placeholders or nothing, nothing is
\* there afterwards.
RmRecursive(ms) == Absent

\* fs.symlink(target, source): the link is created where nothing is; it
\* fails on a path that is taken, which stays as it was.
Symlink(ms, version) == IF ms.kind = "absent" THEN SessionLink(version) ELSE ms

\* Mutation of Activate: what is at the path is not removed first.
ActivateNoRm(ms, version) == Symlink(ms, version)

\* createVersionSymlink(version, multishellPath) on what is at the path.
Activate(ms, version) == Symlink(RmRecursive(ms), version)

\* The version a session path resolves to ("" when it is no link to an
\* existing version directory).
ActiveVersion(ms, dir) ==
  IF ms.kind = "link" /\ ms.target \in dir THEN GetVersionBySymlink(ms.target)
  ELSE ""

-----------------------------------------------------------------------------
(* install                                                                  *)

\* A call recorded in log.
Call(what, arg) == <<what, arg>>

\* Mutation of InstallOutcome: the default alias is pointed at every newly
\* installed version.
InstallOutcomeAlwaysDefault(range, dir, als, raw, rawOk) ==
  LET found    == FindFirst(GetRemoteVersions(raw),
                            LAMBDA remoteVersion : SemverSatisfies(remoteVersion, range))
      resolved == IF SemverValid(range) THEN {range} ELSE found
      fetched  == IF SemverValid(range) THEN <<>> ELSE <<Call("fetch", "")>>
      same     == [versionsDir |-> dir, aliases |-> als]
  IN  IF ~SemverValid(range) /\ raw = FetchFailed
      THEN same @@ [status |-> "threw", value |-> "",
                    error |-> "FetchFailed", calls |-> fetched]
      ELSE IF resolved = {}
      THEN same @@ [status |-> "threw", value |-> "",
                    error |-> "NoRemoteVersionSatisfies", calls |-> fetched]
      ELSE LET version == CHOOSE v \in resolved : TRUE
           IN  IF version \in Range(GetInstalledVersions(dir))
               THEN same @@ [status |-> "returned", value |-> "false",
                             error |-> "", calls |-> fetched]
               ELSE LET calls == Append(fetched, Call("installRaw", version))
                    IN  IF ~rawOk \/ Cardinality(dir) >= MaxInstalled
                        THEN same @@ [status |-> "threw", value |-> "",
                                      error |-> "InstallerFailed", calls |-> calls]
                        ELSE [versionsDir |-> dir \cup {VersionDirName(version)},
                              aliases |-> [als EXCEPT !["default"] = CreateVersionSymlink(version)],
                              status |-> "returned", value |-> "true",
                              error |-> "", calls |-> calls]

\* Mutation of InstallOutcome: a version that is installed is installed
\* again.
InstallOutcomeReinstalls(range, dir, als, raw, rawOk) ==
  LET found    == FindFirst(GetRemoteVersions(raw),
                            LAMBDA remoteVersion : SemverSatisfies(remoteVersion, range))
      resolved == IF SemverValid(range) THEN {range} ELSE found
      fetched  == IF SemverValid(range) THEN <<>> ELSE <<Call("fetch", "")>>
      same     == [versionsDir |-> dir, aliases |-> als]
  IN  IF ~SemverValid(range) /\ raw = FetchFailed
      THEN same @@ [status |-> "threw", value |-> "",
                    error |-> "FetchFailed", calls |-> fetched]
      ELSE IF resolved = {}
      THEN same @@ [status |-> "threw", value |-> "",
                    error |-> "NoRemoteVersionSatisfies", calls |-> fetched]
      ELSE LET version == CHOOSE v \in resolved : TRUE
               calls   == Append(fetched, Call("installRaw", version))
           IN  IF ~rawOk \/ Cardinality(dir \cup {VersionDirName(version)}) > MaxInstalled
               THEN same @@ [status |-> "threw", value |-> "",
                             error |-> "InstallerFailed", calls |-> calls]
               ELSE LET dir2    == dir \cup {VersionDirName(version)}
                        updated == GetInstalledVersions(dir2)
                    IN  [versionsDir |-> dir2,
                         aliases |->
                           IF Len(updated) = 1 /\ updated[1] = version
                           THEN [als EXCEPT !["default"] =
                                   CreateVersionSymlink(updated[1])]
                           ELSE als,
                         status |-> "returned", value |-> "true",
                         error |-> "", calls |-> calls]

\* Mutation of InstallOutcome: the version is always looked up in the
\* remote list.
InstallOutcomeAlwaysFetches(range, dir, als, raw, rawOk) ==
  LET resolved == FindFirst(GetRemoteVersions(raw),
                            LAMBDA remoteVersion : SemverSatisfies(remoteVersion, range))
      fetched  == <<Call("fetch", "")>>
      same     == [versionsDir |-> dir, aliases |-> als]
  IN  IF resolved = {}
      THEN same @@ [status |-> "threw", value |-> "",
                    error |-> "NoRemoteVersionSatisfies", calls |-> fetched]
      ELSE LET version == CHOOSE v \in resolved : TRUE
           IN  IF version \in Range(GetInstalledVersions(dir))
               THEN same @@ [status |-> "returned", value |-> "false",
                             error |-> "", calls |-> fetched]
               ELSE LET calls == Append(fetched, Call("installRaw", version))
                    IN  IF ~rawOk \/ Cardinality(dir) >= MaxInstalled
                        THEN same @@ [status |-> "threw", value |-> "",
                                      error |-> "InstallerFailed", calls |-> calls]
                        ELSE LET dir2    == dir \cup {VersionDirName(version)}
                                 updated == GetInstalledVersions(dir2)
                             IN  [versionsDir |-> dir2,
                                  aliases |->
                                    IF Len(updated) = 1 /\ updated[1] = version
                                    THEN [als EXCEPT !["default"] =
                                            CreateVersionSymlink(updated[1])]
                                    ELSE als,
                                  status |-> "returned", value |-> "true",
                                  error |-> "", calls |-> calls]

\* install(versionRange) on a store: the store afterwards, what install
\* returns or throws, and the calls it made.  rawOk: installRaw succeeds.
InstallOutcome(range, dir, als, raw, rawOk) ==
  LET found    == FindFirst(GetRemoteVersions(raw),
                            LAMBDA remoteVersion : SemverSatisfies(remoteVersion, range))
      resolved == IF SemverValid(range) THEN {range} ELSE found
      fetched  == IF SemverValid(range) THEN <<>> ELSE <<Call("fetch", "")>>
      same     == [versionsDir |-> dir, aliases |-> als]
  IN  IF ~SemverValid(range) /\ raw = FetchFailed
      THEN same @@ [status |-> "threw", value |-> "",
                    error |-> "FetchFailed", calls |-> fetched]
      ELSE IF resolved = {}
      THEN same @@ [status |-> "threw", value |-> "",
                    error |-> "NoRemoteVersionSatisfies", calls |-> fetched]
      ELSE LET version == CHOOSE v \in resolved : TRUE
           IN  IF version \in Range(GetInstalledVersions(dir))
               THEN same @@ [status |-> "returned", value |-> "false",
                             error |-> "", calls |-> fetched]
               ELSE LET calls == Append(fetched, Call("installRaw", version))
                    IN  IF ~rawOk \/ Cardinality(dir) >= MaxInstalled
                        THEN same @@ [status |-> "threw", value |-> "",
                                      error |-> "InstallerFailed", calls |-> calls]
                        ELSE LET dir2    == dir \cup {VersionDirName(version)}
                                 updated == GetInstalledVersions(dir2)
                             IN  [versionsDir |-> dir2,
                                  aliases |->
                                    IF Len(updated) = 1 /\ updated[1] = version
                                    THEN [als EXCEPT !["default"] =
                                            CreateVersionSymlink(updated[1])]
                                    ELSE als,
                                  status |-> "returned", value |-> "true",
                                  error |-> "", calls |-> calls]

InstallArgs == VersionStrings \cup CaretStrings \cup {"lts"}

Install(range, rawOk) ==
  /\ pc = "idle"
  /\ entry' = entry
  /\ versionArg' = versionArg
  /\ UNCHANGED <<detVars, procVars>>
  /\ LET o == InstallOutcome(range, versionsDir, aliases, remoteRaw, rawOk)
     IN  /\ versionsDir' = o.versionsDir
         /\ aliases' = o.aliases
         /\ log' = o.calls
         /\ ret' = [op |-> "install", status |-> o.status, value |-> o.value,
                    error |-> o.error]
  /\ pc' = "done"
  /\ request' = range
  /\ UNCHANGED <<multishells, remoteRaw, multishellPath, versionRange, onFail,
                 defaultVersion, targetVersion>>

-----------------------------------------------------------------------------
(* alias, unalias                                                           *)

AliasNameArgs == AliasNames \cup {"^2.0.0", "2.1.0"}

AliasVersionArgs == VersionStrings \cup {"^2.0.0"}

\* What alias or unalias leaves: the aliases afterwards and the outcome.
AliasResult(als, r) == [aliases |-> als, ret |-> r]

\* Mutation of AliasOutcome: the name is not checked (as in the earlier
\* revisions of alias).
AliasOutcomeNoNameCheck(aliasName, version, dir, als) ==
  IF ~SemverValid(version)
  THEN AliasResult(als, Threw("alias", "InvalidVersion"))
  ELSE IF VersionDirName(version) \notin dir
  THEN AliasResult(als, Threw("alias", "NotInstalled"))
  ELSE AliasResult([als EXCEPT ![aliasName] = CreateVersionSymlink(version)],
                   Returned("alias", ""))

\* Mutation of AliasOutcome: a range passes for a version.
AliasOutcomeRangeAsVersion(aliasName, version, dir, als) ==
  IF ~SemverValidRange(version)
  THEN AliasResult(als, Threw("alias", "InvalidVersion"))
  ELSE IF SemverValidRange(aliasName)
  THEN AliasResult(als, Threw("alias", "InvalidAliasName"))
  ELSE IF VersionDirName(version) \notin dir
  THEN AliasResult(als, Threw("alias", "NotInstalled"))
  ELSE AliasResult([als EXCEPT ![aliasName] = CreateVersionSymlink(version)],
                   Returned("alias", ""))

\* Mutation of AliasOutcome: the version directory is looked for before the
\* name is checked.
AliasOutcomeInstalledFirst(aliasName, version, dir, als) ==
  IF ~SemverValid(version)
  THEN AliasResult(als, Threw("alias", "InvalidVersion"))
  ELSE IF VersionDirName(version) \notin dir
  THEN AliasResult(als, Threw("alias", "NotInstalled"))
  ELSE IF SemverValidRange(aliasName)
  THEN AliasResult(als, Threw("alias", "InvalidAliasName"))
  ELSE AliasResult([als EXCEPT ![aliasName] = CreateVersionSymlink(version)],
                   Returned("alias", ""))

\* Mutation of AliasOutcome: a link that is there is not removed first, and
\* symlink fails on it.
AliasOutcomeNoRemove(aliasName, version, dir, als) ==
  IF ~SemverValid(version)
  THEN AliasResult(als, Threw("alias", "InvalidVersion"))
  ELSE IF SemverValidRange(aliasName)
  THEN AliasResult(als, Threw("alias", "InvalidAliasName"))
  ELSE IF VersionDirName(version) \notin dir
  THEN AliasResult(als, Threw("alias", "NotInstalled"))
  ELSE IF als[aliasName] # NoLink
  THEN AliasResult(als, Threw("alias", "FsError"))
  ELSE AliasResult([als EXCEPT ![aliasName] = CreateVersionSymlink(version)],
                   Returned("alias", ""))

\* alias(aliasName, version) on a store: the checks in the order of the
\* code, then the link.
AliasOutcome(aliasName, version, dir, als) ==
  IF ~SemverValid(version)
  THEN AliasResult(als, Threw("alias", "InvalidVersion"))
  ELSE IF SemverValidRange(aliasName)
  THEN AliasResult(als, Threw("alias", "InvalidAliasName"))
  ELSE IF VersionDirName(version) \notin dir
  THEN AliasResult(als, Threw("alias", "NotInstalled"))
  ELSE AliasResult([als EXCEPT ![aliasName] = CreateVersionSymlink(version)],
                   Returned("alias", ""))

\* alias(aliasName, version)
Alias(aliasName, version) ==
  /\ pc = "idle"
  /\ entry' = entry
  /\ versionArg' = version
  /\ UNCHANGED <<detVars, procVars>>
  /\ LET o == AliasOutcome(aliasName, version, versionsDir, aliases)
     IN  /\ aliases' = o.aliases
         /\ ret' = o.ret
  /\ pc' = "done"
  /\ request' = aliasName
  /\ log' = <<>>
  /\ UNCHANGED <<versionsDir, multishells, remoteRaw, multishellPath,
                 versionRange, onFail, defaultVersion, targetVersion>>

UnaliasArgs == AliasNames \cup {"nightly"}

\* Mutation of UnaliasOutcome: default is a name like the others.
UnaliasOutcomeNoReserved(aliasName, dir, als) ==
  IF ~Exists(AliasLink(als, aliasName), dir)
  THEN AliasResult(als, Returned("unalias", ""))
  ELSE AliasResult([als EXCEPT ![aliasName] = NoLink], Returned("unalias", ""))

\* unalias(aliasName) on a store.
UnaliasOutcome(aliasName, dir, als) ==
  IF aliasName = "default"
  THEN AliasResult(als, Threw("unalias", "DefaultReserved"))
  ELSE IF ~Exists(AliasLink(als, aliasName), dir)
  THEN AliasResult(als, Returned("unalias", ""))
  ELSE AliasResult([als EXCEPT ![aliasName] = NoLink], Returned("unalias", ""))

\* unalias(aliasName)
Unalias(aliasName) ==
  /\ pc = "idle"
  /\ entry' = entry
  /\ versionArg' = versionArg
  /\ UNCHANGED <<detVars, procVars>>
  /\ LET o == UnaliasOutcome(aliasName, versionsDir, aliases)
     IN  /\ aliases' = o.aliases
         /\ ret' = o.ret
  /\ pc' = "done"
  /\ request' = aliasName
  /\ log' = <<>>
  /\ UNCHANGED <<versionsDir, multishells, remoteRaw, multishellPath,
                 versionRange, onFail, defaultVersion, targetVersion>>

-----------------------------------------------------------------------------
(* uninstall                                                                *)

\* Mutation of CascadeOnUninstall: no alias is removed.
CascadeOnUninstallNone(removedVersion, als) == als

\* The aliases after every alias whose resolved target is removedVersion
\* has been removed.
CascadeOnUninstall(removedVersion, als) ==
  [n \in DOMAIN als |->
     IF als[n] # NoLink /\ GetVersionBySymlink(als[n]) = removedVersion
     THEN NoLink
     ELSE als[n]]

\* Mutation of RepointDefault: the first directory entry, not the highest
\* version.
RepointDefaultUnsorted(dir, als) ==
  IF Exists(als["default"], dir)
  THEN als
  ELSE LET installed == GetInstalledVersionsUnsorted(dir)
       IN  IF Len(installed) > 0
           THEN [als EXCEPT !["default"] = CreateVersionSymlink(installed[1])]
           ELSE als

\* With no default alias left and versions remaining, default is pointed
\* at the highest remaining version.
RepointDefault(dir, als) ==
  IF Exists(als["default"], dir)
  THEN als
  ELSE LET installed == GetInstalledVersions(dir)
       IN  IF Len(installed) > 0
           THEN [als EXCEPT !["default"] = CreateVersionSymlink(installed[1])]
           ELSE als

\* Mutation of UninstallOutcome: only the version directory is removed.
UninstallOutcomeDirOnly(version, dir, als) ==
  IF ~SemverValid(version)
  THEN [versionsDir |-> dir, aliases |-> als,
        ret |-> Threw("uninstall", "InvalidVersion")]
  ELSE IF VersionDirName(version) \notin dir
  THEN [versionsDir |-> dir, aliases |-> als,
        ret |-> Returned("uninstall", "false")]
  ELSE [versionsDir |-> dir \ {VersionDirName(version)}, aliases |-> als,
        ret |-> Returned("uninstall", "true")]

\* Mutation of UninstallOutcome: the version is not validated.
UninstallOutcomeUnvalidated(version, dir, als) ==
  IF VersionDirName(version) \notin dir
  THEN [versionsDir |-> dir, aliases |-> als,
        ret |-> Returned("uninstall", "false")]
  ELSE LET remaining == dir \ {VersionDirName(version)}
       IN  [versionsDir |-> remaining,
            aliases |-> RepointDefault(remaining, CascadeOnUninstall(version, als)),
            ret |-> Returned("uninstall", "true")]

\* uninstall(version) on a store: the store afterwards and the outcome.
UninstallOutcome(version, dir, als) ==
  IF ~SemverValid(version)
  THEN [versionsDir |-> dir, aliases |-> als,
        ret |-> Threw("uninstall", "InvalidVersion")]
  ELSE IF VersionDirName(version) \notin dir
  THEN [versionsDir |-> dir, aliases |-> als,
        ret |-> Returned("uninstall", "false")]
  ELSE LET remaining == dir \ {VersionDirName(version)}
       IN  [versionsDir |-> remaining,
            aliases |-> RepointDefault(remaining, CascadeOnUninstall(version, als)),
            ret |-> Returned("uninstall", "true")]

UninstallArgs == VersionStrings \cup {"invalid"}

\* uninstall(version)
Uninstall(version) ==
  /\ pc = "idle"
  /\ entry' = entry
  /\ versionArg' = version
  /\ UNCHANGED <<detVars, procVars>>
  /\ LET o == UninstallOutcome(version, versionsDir, aliases)
     IN  /\ versionsDir' = o.versionsDir
         /\ aliases' = o.aliases
         /\ ret' = o.ret
  /\ pc' = "done"
  /\ log' = <<>>
  /\ UNCHANGED <<multishells, remoteRaw, multishellPath, request, versionRange,
                 onFail, defaultVersion, targetVersion>>

-----------------------------------------------------------------------------
(* use                                                                      *)

\* Mutation of WritePlaceholders: nothing is written.
WritePlaceholdersNone(ms) == ms

\* What is at the session path after mkdir -p <path>/bin and the writing of
\* the placeholder executables: a link to a directory stays, the files
\* being written through it.
WritePlaceholders(ms) == IF ms.kind = "link" THEN ms ELSE Placeholders

UseRequests == {""} \cup CaretStrings \cup {"2.1.0", "3.0.0-beta.1"} \cup NameStrings

Finish(r) ==
  /\ ret' = r
  /\ pc' = "done"

\* Mutation of UseStart: an empty value is not told from a relative one.
UseStartNoEmptyCheck(versionOrAlias, env) ==
  /\ pc = "idle"
  /\ entry' = entry
  /\ versionArg' = versionArg
  /\ UNCHANGED <<detVars, procVars>>
  /\ request' = versionOrAlias
  /\ log' = <<>>
  /\ multishellPath' = env
  /\ IF ~IsAbsolute(env)
     THEN /\ Finish(Threw("use", "NotAbsolute"))
          /\ UNCHANGED <<multishells, defaultVersion>>
     ELSE LET dv == IF Exists(aliases["default"], versionsDir)
                    THEN GetVersionBySymlink(aliases["default"])
                    ELSE ""
              ms == multishells[env]
          IN  IF dv = "" /\ ms.kind = "link" /\ ms.target \notin versionsDir
              THEN /\ Finish(Threw("use", "FsError"))
                   /\ UNCHANGED <<multishells, defaultVersion>>
              ELSE /\ defaultVersion' = dv
                   /\ multishells' =
                        [multishells EXCEPT ![env] =
                           IF dv # "" THEN Activate(@, dv) ELSE WritePlaceholders(@)]
                   /\ pc' = "resolve"
                   /\ ret' = ret
  /\ UNCHANGED <<versionsDir, aliases, remoteRaw, versionRange, onFail, targetVersion>>

\* Mutation of UseStart: one session path for every shell.
UseStartSharedPath(versionOrAlias, env) ==
  LET SharedPath == IF env = <<>> \/ ~IsAbsolute(env) THEN env ELSE <<"/", "ms1">> IN
  /\ pc = "idle"
  /\ entry' = entry
  /\ versionArg' = versionArg
  /\ UNCHANGED <<detVars, procVars>>
  /\ request' = versionOrAlias
  /\ log' = <<>>
  /\ multishellPath' = SharedPath
  /\ IF env = <<>>
     THEN /\ Finish(Threw("use", "EnvNotSet"))
          /\ UNCHANGED <<multishells, defaultVersion>>
     ELSE IF ~IsAbsolute(env)
     THEN /\ Finish(Threw("use", "NotAbsolute"))
          /\ UNCHANGED <<multishells, defaultVersion>>
     ELSE LET dv == IF Exists(aliases["default"], versionsDir)
                    THEN GetVersionBySymlink(aliases["default"])
                    ELSE ""
              ms == multishells[SharedPath]
          IN  IF dv = "" /\ ms.kind = "link" /\ ms.target \notin versionsDir
              THEN /\ Finish(Threw("use", "FsError"))
                   /\ UNCHANGED <<multishells, defaultVersion>>
              ELSE /\ defaultVersion' = dv
                   /\ multishells' =
                        [multishells EXCEPT ![SharedPath] =
                           IF dv # "" THEN Activate(@, dv) ELSE WritePlaceholders(@)]
                   /\ pc' = "resolve"
                   /\ ret' = ret
  /\ UNCHANGED <<versionsDir, aliases, remoteRaw, versionRange, onFail, targetVersion>>

\* Environment checks and "0. Init".  multishellPath holds what was read
\* from the environment, also when a check rejects it.  With no default
\* alias, mkdir -p <path>/bin fails when the path is a link to a version
\* directory that is gone, and use ends with that error.
UseStart(versionOrAlias, env) ==
  /\ pc = "idle"
  /\ entry' = entry
  /\ versionArg' = versionArg
  /\ UNCHANGED <<detVars, procVars>>
  /\ request' = versionOrAlias
  /\ log' = <<>>
  /\ multishellPath' = env
  /\ IF env = <<>>
     THEN /\ Finish(Threw("use", "EnvNotSet"))
          /\ UNCHANGED <<multishells, defaultVersion>>
     ELSE IF ~IsAbsolute(env)
     THEN /\ Finish(Threw("use", "NotAbsolute"))
          /\ UNCHANGED <<multishells, defaultVersion>>
     ELSE LET dv == IF Exists(aliases["default"], versionsDir)
                    THEN GetVersionBySymlink(aliases["default"])
                    ELSE ""
              ms == multishells[env]
          IN  IF dv = "" /\ ms.kind = "link" /\ ms.target \notin versionsDir
              THEN /\ Finish(Threw("use", "FsError"))
                   /\ UNCHANGED <<multishells, defaultVersion>>
              ELSE /\ defaultVersion' = dv
                   /\ multishells' =
                        [multishells EXCEPT ![env] =
                           IF dv # "" THEN Activate(@, dv) ELSE WritePlaceholders(@)]
                   /\ pc' = "resolve"
                   /\ ret' = ret
  /\ UNCHANGED <<versionsDir, aliases, remoteRaw, versionRange, onFail, targetVersion>>

\* The range to look for: detected, given, or the version of an alias; and
\* "1. No version range, do nothing."  The Detector answers with a range
\* and, from a manifest, its onFail; use keeps both.
UseResolve(detected) ==
  /\ pc = "resolve"
  /\ entry' = entry
  /\ versionArg' = versionArg
  /\ UNCHANGED <<detVars, procVars>>
  /\ IF request = ""
     THEN /\ detected \in DetectResults
          /\ log' = Append(log, Call("detect", ""))
          /\ versionRange' = IF detected.found THEN detected.versionRange ELSE ""
          /\ onFail' = IF detected.found THEN detected.onFail ELSE ""
          /\ IF detected.found
             THEN pc' = "default" /\ ret' = ret
             ELSE Finish(Returned("use", ""))
     ELSE /\ detected = CHOOSE d \in DetectResults : ~d.found
          /\ log' = log
          /\ onFail' = onFail
          /\ IF SemverValidRange(request)
             THEN /\ versionRange' = request
                  /\ pc' = "default"
                  /\ ret' = ret
             ELSE IF ~Exists(AliasLink(aliases, request), versionsDir)
             THEN /\ versionRange' = versionRange
                  /\ Finish(Threw("use", "AliasNotFound"))
             ELSE /\ versionRange' = GetVersionBySymlink(AliasLink(aliases, request))
                  /\ pc' = "default"
                  /\ ret' = ret
  /\ UNCHANGED <<versionsDir, aliases, multishells, remoteRaw, multishellPath,
                 request, defaultVersion, targetVersion>>

\* Mutation of UseDefault: the default version is never tried first.
UseDefaultSkipped ==
  /\ pc = "default"
  /\ entry' = entry
  /\ versionArg' = versionArg
  /\ UNCHANGED <<detVars, procVars>>
  /\ pc' = "scan"
  /\ UNCHANGED <<versionsDir, aliases, multishells, remoteRaw, multishellPath,
                 request, versionRange, onFail, defaultVersion, targetVersion,
                 ret, log, entry>>

\* Mutation of UseDefault: the default version is linked only while its
\* directory is still there.
UseDefaultGuarded ==
  /\ pc = "default"
  /\ entry' = entry
  /\ versionArg' = versionArg
  /\ UNCHANGED <<detVars, procVars>>
  /\ IF /\ defaultVersion # ""
        /\ SemverSatisfies(defaultVersion, versionRange)
        /\ VersionDirName(defaultVersion) \in versionsDir
     THEN /\ multishells' =
               [multishells EXCEPT ![multishellPath] = Activate(@, defaultVersion)]
          /\ Finish(Returned("use", defaultVersion))
     ELSE /\ pc' = "scan"
          /\ UNCHANGED <<multishells, ret>>
  /\ UNCHANGED <<versionsDir, aliases, remoteRaw, multishellPath, request,
                 versionRange, onFail, defaultVersion, targetVersion, log>>

\* "2. Use default version first."
UseDefault ==
  /\ pc = "default"
  /\ entry' = entry
  /\ versionArg' = versionArg
  /\ UNCHANGED <<detVars, procVars>>
  /\ IF defaultVersion # "" /\ SemverSatisfies(defaultVersion, versionRange)
     THEN /\ multishells' =
               [multishells EXCEPT ![multishellPath] = Activate(@, defaultVersion)]
          /\ Finish(Returned("use", defaultVersion))
     ELSE /\ pc' = "scan"
          /\ UNCHANGED <<multishells, ret>>
  /\ UNCHANGED <<versionsDir, aliases, remoteRaw, multishellPath, request,
                 versionRange, onFail, defaultVersion, targetVersion, log>>

\* Mutation of UseInstalled: the installed versions are not looked at.
UseInstalledSkipped ==
  /\ pc = "scan"
  /\ pc' = "onFail"
  /\ versionArg' = versionArg
  /\ UNCHANGED <<detVars, procVars>>
  /\ UNCHANGED <<versionsDir, aliases, multishells, remoteRaw, multishellPath,
                 request, versionRange, onFail, defaultVersion, targetVersion,
                 ret, log, entry>>

\* "3. Use installed version."
UseInstalled ==
  /\ pc = "scan"
  /\ entry' = entry
  /\ versionArg' = versionArg
  /\ UNCHANGED <<detVars, procVars>>
  /\ LET installedVersions == GetInstalledVersions(versionsDir)
         satisfied == FindFirst(installedVersions,
                        LAMBDA installedVersion :
                          SemverSatisfies(installedVersion, versionRange))
     IN  IF satisfied # {}
         THEN LET satisfiedVersion == CHOOSE v \in satisfied : TRUE
              IN  /\ multishells' =
                       [multishells EXCEPT ![multishellPath] =
                          Activate(@, satisfiedVersion)]
                  /\ Finish(Returned("use", satisfiedVersion))
         ELSE /\ pc' = "onFail"
              /\ UNCHANGED <<multishells, ret>>
  /\ UNCHANGED <<versionsDir, aliases, remoteRaw, multishellPath, request,
                 versionRange, onFail, defaultVersion, targetVersion, log>>

\* Mutation of OnFailPolicy: a warn policy still offers the installation.
OnFailPolicyWarnPrompts(versionOrAlias, detectedOnFail) ==
  IF versionOrAlias = "" /\ detectedOnFail = "ignore" THEN "ignore" ELSE "prompt"

\* What to do when nothing installed satisfies the range: nothing, warn,
\* or offer to install.
OnFailPolicy(versionOrAlias, detectedOnFail) ==
  IF versionOrAlias = "" /\ detectedOnFail = "ignore" THEN "ignore"
  ELSE IF versionOrAlias = "" /\ detectedOnFail = "warn" THEN "warn"
  ELSE "prompt"

UseOnFail ==
  /\ pc = "onFail"
  /\ entry' = entry
  /\ versionArg' = versionArg
  /\ UNCHANGED <<detVars, procVars>>
  /\ LET policy == OnFailPolicy(request, onFail)
     IN  IF policy = "ignore"
         THEN /\ Finish(Returned("use", ""))
              /\ log' = log
         ELSE IF policy = "warn"
         THEN /\ Finish(Returned("use", ""))
              /\ log' = Append(log, Call("warn", versionRange))
         ELSE /\ pc' = "ask"
              /\ UNCHANGED <<ret, log>>
  /\ UNCHANGED <<versionsDir, aliases, multishells, remoteRaw, multishellPath,
                 request, versionRange, onFail, defaultVersion, targetVersion>>

\* Mutation of UseAsk: the remote list is fetched before the question, which
\* is asked only when a remote version satisfies the range (the order of an
\* earlier revision of use).
UseAskAfterFetch(typed) ==
  /\ pc = "ask"
  /\ entry' = entry
  /\ versionArg' = versionArg
  /\ UNCHANGED <<detVars, procVars>>
  /\ LET installAnswer == Ask(typed)
         target == FindFirst(GetRemoteVersions(remoteRaw),
                     LAMBDA remoteVersion :
                       SemverSatisfies(remoteVersion, versionRange))
     IN  IF remoteRaw = FetchFailed
         THEN /\ log' = Append(log, Call("fetch", ""))
              /\ Finish(Threw("use", "FetchFailed"))
         ELSE IF target = {}
         THEN /\ log' = Append(log, Call("fetch", ""))
              /\ Finish(Threw("use", "NoRemoteVersionSatisfies"))
         ELSE /\ log' = log \o <<Call("fetch", ""), Call("ask", installAnswer)>>
              /\ IF ~Accepted(installAnswer)
                 THEN Finish(Returned("use", ""))
                 ELSE pc' = "fetch" /\ ret' = ret
  /\ UNCHANGED <<versionsDir, aliases, multishells, remoteRaw, multishellPath,
                 request, versionRange, onFail, defaultVersion, targetVersion>>

\* "4. Use remote version.": the question.
UseAsk(typed) ==
  /\ pc = "ask"
  /\ entry' = entry
  /\ versionArg' = versionArg
  /\ UNCHANGED <<detVars, procVars>>
  /\ LET installAnswer == Ask(typed)
     IN  /\ log' = Append(log, Call("ask", installAnswer))
         /\ IF ~Accepted(installAnswer)
            THEN Finish(Returned("use", ""))
            ELSE pc' = "fetch" /\ ret' = ret
  /\ UNCHANGED <<versionsDir, aliases, multishells, remoteRaw, multishellPath,
                 request, versionRange, onFail, defaultVersion, targetVersion>>

\* The remote list and the choice of the target.
UseFetch ==
  /\ pc = "fetch"
  /\ entry' = entry
  /\ versionArg' = versionArg
  /\ UNCHANGED <<detVars, procVars>>
  /\ log' = Append(log, Call("fetch", ""))
  /\ LET remoteVersions == GetRemoteVersions(remoteRaw)
         target == FindFirst(remoteVersions,
                     LAMBDA remoteVersion :
                       SemverSatisfies(remoteVersion, versionRange))
     IN  IF remoteRaw = FetchFailed
         THEN /\ targetVersion' = targetVersion
              /\ Finish(Threw("use", "FetchFailed"))
         ELSE IF target # {}
         THEN /\ targetVersion' = CHOOSE v \in target : TRUE
              /\ pc' = "install"
              /\ ret' = ret
         ELSE /\ targetVersion' = targetVersion
              /\ Finish(Threw("use", "NoRemoteVersionSatisfies"))
  /\ UNCHANGED <<versionsDir, aliases, multishells, remoteRaw, multishellPath,
                 request, versionRange, onFail, defaultVersion>>

\* install(targetVersion), then the session link.
UseInstall(rawOk) ==
  /\ pc = "install"
  /\ entry' = entry
  /\ versionArg' = versionArg
  /\ UNCHANGED <<detVars, procVars>>
  /\ LET o == InstallOutcome(targetVersion, versionsDir, aliases, remoteRaw, rawOk)
     IN  /\ versionsDir' = o.versionsDir
         /\ aliases' = o.aliases
         /\ log' = log \o o.calls
         /\ IF o.status = "threw"
            THEN /\ Finish(Threw("use", o.error))
                 /\ multishells' = multishells
            ELSE /\ multishells' =
                      [multishells EXCEPT ![multishellPath] =
                         Activate(@, targetVersion)]
                 /\ Finish(Returned("use", targetVersion))
  /\ UNCHANGED <<remoteRaw, multishellPath, request, versionRange, onFail,
                 defaultVersion, targetVersion>>

\* The operation is over; the next command may start.
Return ==
  /\ pc = "done"
  /\ pc' = "idle"
  /\ ret' = NoRet
  /\ log' = <<>>
  /\ multishellPath' = <<>>
  /\ request' = ""
  /\ versionRange' = ""
  /\ onFail' = ""
  /\ defaultVersion' = ""
  /\ targetVersion' = ""
  /\ versionArg' = ""
  /\ UNCHANGED <<detVars, procVars>>
  /\ entry' = [versionsDir |-> versionsDir, aliases |-> aliases]
  /\ UNCHANGED <<versionsDir, aliases, multishells, remoteRaw>>

\* list(), as the revision that returns the installed versions has it; the
\* log holds the versions in the order they are returned.
ListInstalled ==
  /\ pc = "idle"
  /\ entry' = entry
  /\ versionArg' = versionArg
  /\ UNCHANGED <<detVars, procVars>>
  /\ LET installedVersions == GetInstalledVersions(versionsDir)
     IN  log' = [i \in DOMAIN installedVersions |->
                   Call("listed", installedVersions[i])]
  /\ Finish(Returned("list", ""))
  /\ request' = ""
  /\ UNCHANGED <<versionsDir, aliases, multishells, remoteRaw, multishellPath,
                 versionRange, onFail, defaultVersion, targetVersion>>

-----------------------------------------------------------------------------
(* install and alias step by step, as another process meets them            *)

\* install(versionRange) up to the call of installRaw: the version is
\* resolved and looked for among the installed ones.
InstallStart(range) ==
  /\ pc = "idle"
  /\ entry' = [versionsDir |-> versionsDir, aliases |-> aliases]
  /\ versionArg' = versionArg
  /\ UNCHANGED <<detVars, procVars>>
  /\ request' = range
  /\ LET found    == FindFirst(GetRemoteVersions(remoteRaw),
                               LAMBDA remoteVersion : SemverSatisfies(remoteVersion, range))
         resolved == IF SemverValid(range) THEN {range} ELSE found
         fetched  == IF SemverValid(range) THEN <<>> ELSE <<Call("fetch", "")>>
     IN  /\ log' = fetched
         /\ IF ~SemverValid(range) /\ remoteRaw = FetchFailed
            THEN /\ Finish(Threw("install", "FetchFailed"))
                 /\ targetVersion' = targetVersion
            ELSE IF resolved = {}
            THEN /\ Finish(Threw("install", "NoRemoteVersionSatisfies"))
                 /\ targetVersion' = targetVersion
            ELSE LET version == CHOOSE v \in resolved : TRUE
                 IN  IF version \in Range(GetInstalledVersions(versionsDir))
                     THEN /\ Finish(Returned("install", "false"))
                          /\ targetVersion' = targetVersion
                     ELSE /\ targetVersion' = version
                          /\ pc' = "installRaw"
                          /\ ret' = ret
  /\ UNCHANGED <<versionsDir, aliases, multishells, remoteRaw, multishellPath,
                 versionRange, onFail, defaultVersion>>

\* installRaw(version, versionsDir): the directory of the version is there
\* when it has succeeded.
InstallRaw(rawOk) ==
  /\ pc = "installRaw"
  /\ entry' = entry
  /\ versionArg' = versionArg
  /\ UNCHANGED <<detVars, procVars>>
  /\ log' = Append(log, Call("installRaw", targetVersion))
  /\ IF ~rawOk \/ Cardinality(versionsDir) >= MaxInstalled
     THEN /\ Finish(Threw("install", "InstallerFailed"))
          /\ versionsDir' = versionsDir
     ELSE /\ versionsDir' = versionsDir \cup {VersionDirName(targetVersion)}
          /\ pc' = "installEnd"
          /\ ret' = ret
  /\ UNCHANGED <<aliases, multishells, remoteRaw, multishellPath, request,
                 versionRange, onFail, defaultVersion, targetVersion>>

\* The rest of install: the installed versions are read again and the
\* default alias is made when the new version is the only one.
InstallEnd ==
  /\ pc = "installEnd"
  /\ entry' = entry
  /\ versionArg' = versionArg
  /\ UNCHANGED <<detVars, procVars>>
  /\ LET updatedInstalledVersions == GetInstalledVersions(versionsDir)
     IN  aliases' =
           IF Len(updatedInstalledVersions) = 1
                /\ updatedInstalledVersions[1] = targetVersion
           THEN [aliases EXCEPT !["default"] =
                   CreateVersionSymlink(updatedInstalledVersions[1])]
           ELSE aliases
  /\ Finish(Returned("install", "true"))
  /\ UNCHANGED <<versionsDir, multishells, remoteRaw, multishellPath, request,
                 versionRange, onFail, defaultVersion, targetVersion, log>>

\* Mutation of AliasStart: the link is replaced in one step.
AliasStartAtomic(aliasName, version) ==
  /\ pc = "idle"
  /\ entry' = [versionsDir |-> versionsDir, aliases |-> aliases]
  /\ versionArg' = version
  /\ UNCHANGED <<detVars, procVars>>
  /\ request' = aliasName
  /\ log' = <<>>
  /\ LET o == AliasOutcome(aliasName, version, versionsDir, aliases)
     IN  /\ aliases' = o.aliases
         /\ Finish(o.ret)
  /\ UNCHANGED <<versionsDir, multishells, remoteRaw, multishellPath,
                 versionRange, onFail, defaultVersion, targetVersion>>

\* alias(aliasName, version) up to the fs.symlink of createVersionSymlink:
\* the checks, and fs.rm of what is at the path of the alias.
AliasStart(aliasName, version) ==
  /\ pc = "idle"
  /\ entry' = [versionsDir |-> versionsDir, aliases |-> aliases]
  /\ versionArg' = version
  /\ UNCHANGED <<detVars, procVars>>
  /\ request' = aliasName
  /\ log' = <<>>
  /\ LET o == AliasOutcome(aliasName, version, versionsDir, aliases)
     IN  IF o.ret.status = "threw"
         THEN /\ aliases' = aliases
              /\ Finish(o.ret)
         ELSE /\ aliases' = [aliases EXCEPT ![aliasName] = NoLink]
              /\ pc' = "aliasLink"
              /\ ret' = ret
  /\ UNCHANGED <<versionsDir, multishells, remoteRaw, multishellPath,
                 versionRange, onFail, defaultVersion, targetVersion>>

\* fs.symlink of createVersionSymlink: the link is made where nothing is;
\* it fails where another process has made one meanwhile.
AliasSymlink ==
  /\ pc = "aliasLink"
  /\ entry' = entry
  /\ versionArg' = versionArg
  /\ UNCHANGED <<detVars, procVars>>
  /\ IF aliases[request] = NoLink
     THEN /\ aliases' = [aliases EXCEPT ![request] = CreateVersionSymlink(versionArg)]
          /\ Finish(Returned("alias", ""))
     ELSE /\ aliases' = aliases
          /\ Finish(Threw("alias", "FsError"))
  /\ UNCHANGED <<versionsDir, multishells, remoteRaw, multishellPath, request,
                 versionRange, onFail, defaultVersion, targetVersion, log>>

-----------------------------------------------------------------------------
(* Detector                                                                 *)

\* The name the Detector was constructed with.
Kind == "node"

\* The directories: the root and a chain below it.
Dirs == {<<>>, <<"a">>, <<"a", "b">>}

\* Mutation of Dirname: the root of the path.
DirnameRoot(dirPath) == <<>>

\* path.dirname: the parent, and the root for the root.
Dirname(dirPath) ==
  IF dirPath = <<>> THEN <<>> ELSE SubSeq(dirPath, 1, Len(dirPath) - 1)

\* What can be at <dir>/.<name>-version: nothing, a file that cannot be
\* read, or a file with this content (pieces of text and white space).
NoVersionFile == [state |-> "absent", content |-> <<>>]

UnreadableVersionFile == [state |-> "unreadable", content |-> <<>>]

VersionFile(content) == [state |-> "file", content |-> content]

\* An element of devEngines.runtime.  hasVersion: version is a string.
RuntimeEntry(n, v, f) == [name |-> n, hasVersion |-> TRUE, version |-> v, onFail |-> f]

RuntimeEntryNoVersion(n) == [name |-> n, hasVersion |-> FALSE, version |-> "", onFail |-> ""]

\* What can be at <dir>/package.json: nothing, a file that cannot be read,
\* text that is no JSON, or JSON whose devEngines.runtime is absent, one
\* object, or an array of objects.
NoPackageJson == [state |-> "absent", runtime |-> "absent", entries |-> <<>>]

UnreadablePackageJson == [state |-> "unreadable", runtime |-> "absent", entries |-> <<>>]

MalformedPackageJson == [state |-> "malformed", runtime |-> "absent", entries |-> <<>>]

PackageJson(runtime, entries) == [state |-> "json", runtime |-> runtime, entries |-> entries]

DirWith(versionFile, packageJson) ==
  [versionFile |-> versionFile, packageJson |-> packageJson]

\* A directory with neither file.
EmptyDir == DirWith(NoVersionFile, NoPackageJson)

\* What a directory may hold.
DirContents ==
  LET padded   == VersionFile(<<" ", "^3.0.0", " ", "\n">>)
      exact    == VersionFile(<<"2.1.0">>)
      object   == PackageJson("object", <<RuntimeEntry("node", "^2.0.0", "warn")>>)
      several  == PackageJson("array", <<RuntimeEntry("bun", "1.0.0", "error"),
                                         RuntimeEntry("node", "2.0.0", ""),
                                         RuntimeEntry("node", "^3.0.0", "ignore")>>)
      others   == PackageJson("array", <<RuntimeEntry("bun", "1.0.0", "download")>>)
      unusable == PackageJson("array", <<RuntimeEntryNoVersion("node"),
                                         RuntimeEntry("node", "^3.0.0", "")>>)
      bare     == PackageJson("absent", <<>>)
  IN  { EmptyDir,
        DirWith(padded, object),
        DirWith(exact, NoPackageJson),
        DirWith(exact, MalformedPackageJson),
        DirWith(NoVersionFile, object),
        DirWith(NoVersionFile, several),
        DirWith(NoVersionFile, others),
        DirWith(NoVersionFile, unusable),
        DirWith(NoVersionFile, bare),
        DirWith(NoVersionFile, MalformedPackageJson),
        DirWith(UnreadableVersionFile, object),
        DirWith(UnreadableVersionFile, UnreadablePackageJson) }

\* The text of a sequence of pieces.
RECURSIVE Join(_)
Join(pieces) == IF pieces = <<>> THEN "" ELSE Head(pieces) \o Join(Tail(pieces))

\* What a lookup gives: undefined, a result, or a rejection.
Undefined == [threw |-> FALSE, found |-> FALSE, versionRange |-> "", onFail |-> ""]

Rejected == [threw |-> TRUE, found |-> FALSE, versionRange |-> "", onFail |-> ""]

Result(range, f) == [threw |-> FALSE, found |-> TRUE, versionRange |-> range, onFail |-> f]

\* Mutation of DetectByVersionFile: the content is not trimmed.
DetectByVersionFileUntrimmed(file) ==
  IF file.state = "absent" THEN Undefined
  ELSE IF file.state = "unreadable" THEN Rejected
  ELSE Result(Join(file.content), "")

\* detectByVersionFile on what is at the version file path.
DetectByVersionFile(file) ==
  IF file.state = "absent" THEN Undefined
  ELSE IF file.state = "unreadable" THEN Rejected
  ELSE Result(Join(Trim(file.content)), "")

\* Mutation of DetectByPackageJsonFile: the last entry of the kind.
DetectByPackageJsonFileLast(file) ==
  IF file.state = "absent" THEN Undefined
  ELSE IF file.state \in {"unreadable", "malformed"} THEN Rejected
  ELSE LET runtime == IF file.runtime = "absent" THEN <<>>
                      ELSE IF file.runtime = "array" THEN file.entries
                      ELSE <<file.entries[1]>>
           named == {i \in DOMAIN runtime : runtime[i].name = Kind}
       IN  IF named = {} THEN Undefined
           ELSE LET matched == runtime[CHOOSE i \in named : \A j \in named : j <= i]
                IN  IF matched.hasVersion
                    THEN Result(matched.version, matched.onFail)
                    ELSE Undefined

\* detectByPackageJsonFile on what is at the package.json path.
DetectByPackageJsonFile(file) ==
  IF file.state = "absent" THEN Undefined
  ELSE IF file.state \in {"unreadable", "malformed"} THEN Rejected
  ELSE LET runtime == IF file.runtime = "absent" THEN <<>>
                      ELSE IF file.runtime = "array" THEN file.entries
                      ELSE <<file.entries[1]>>
           matched == FindFirst(runtime, LAMBDA r : r.name = Kind)
       IN  IF matched = {} THEN Undefined
           ELSE LET m == CHOOSE r \in matched : TRUE
                IN  IF m.hasVersion THEN Result(m.version, m.onFail) ELSE Undefined

\* Mutation of Catch: a rejection is passed on.
CatchNothing(outcome) == outcome

\* .catch(() => undefined)
Catch(outcome) == IF outcome.threw THEN Undefined ELSE outcome

\* A file looked for.
Looked(dirPath, source) == [dir |-> dirPath, source |-> source]

\* detectVersionRange(dir) is called.
DetectStart(dir) ==
  /\ detectPc = "idle"
  /\ startDir' = dir
  /\ currentDir' = dir
  /\ consulted' = <<>>
  /\ detectResult' = Undefined
  /\ detectPc' = "versionFile"
  /\ UNCHANGED <<fsDirs, procVars>>
  /\ UNCHANGED <<versionsDir, aliases, multishells, remoteRaw, pc, locals,
                 versionArg, ret, log, entry>>

\* The version file of the current directory.
DetectVersionFile ==
  /\ detectPc = "versionFile"
  /\ consulted' = Append(consulted, Looked(currentDir, "versionFile"))
  /\ LET result == Catch(DetectByVersionFile(fsDirs[currentDir].versionFile))
     IN  IF result.threw \/ result.found
         THEN detectResult' = result /\ detectPc' = "done"
         ELSE detectResult' = detectResult /\ detectPc' = "packageJson"
  /\ UNCHANGED <<fsDirs, startDir, currentDir, procVars>>
  /\ UNCHANGED <<versionsDir, aliases, multishells, remoteRaw, pc, locals,
                 versionArg, ret, log, entry>>

\* The package.json of the current directory.
DetectPackageJson ==
  /\ detectPc = "packageJson"
  /\ consulted' = Append(consulted, Looked(currentDir, "packageJson"))
  /\ LET result == Catch(DetectByPackageJsonFile(fsDirs[currentDir].packageJson))
     IN  IF result.threw \/ result.found
         THEN detectResult' = result /\ detectPc' = "done"
         ELSE detectResult' = detectResult /\ detectPc' = "parent"
  /\ UNCHANGED <<fsDirs, startDir, currentDir, procVars>>
  /\ UNCHANGED <<versionsDir, aliases, multishells, remoteRaw, pc, locals,
                 versionArg, ret, log, entry>>

\* Mutation of DetectParent: the walk does not stop at the root.
DetectParentNoStop ==
  /\ detectPc = "parent"
  /\ currentDir' = Dirname(currentDir)
  /\ detectPc' = "versionFile"
  /\ UNCHANGED <<fsDirs, startDir, detectResult, consulted, procVars>>
  /\ UNCHANGED <<versionsDir, aliases, multishells, remoteRaw, pc, locals,
                 versionArg, ret, log, entry>>

\* Nothing in the current directory: undefined at the root, and the parent
\* directory otherwise.
DetectParent ==
  /\ detectPc = "parent"
  /\ LET parentDir == Dirname(currentDir)
     IN  IF parentDir = currentDir
         THEN /\ detectPc' = "done"
              /\ currentDir' = currentDir
         ELSE /\ detectPc' = "versionFile"
              /\ currentDir' = parentDir
  /\ UNCHANGED <<fsDirs, startDir, detectResult, consulted, procVars>>
  /\ UNCHANGED <<versionsDir, aliases, multishells, remoteRaw, pc, locals,
                 versionArg, ret, log, entry>>

\* The caller has the result.
DetectReturn ==
  /\ detectPc = "done"
  /\ detectPc' = "idle"
  /\ UNCHANGED <<fsDirs, startDir, currentDir, detectResult, consulted, procVars>>
  /\ UNCHANGED <<versionsDir, aliases, multishells, remoteRaw, pc, locals,
                 versionArg, ret, log, entry>>

\* No detection is running.
DetectIdle ==
  /\ startDir = <<>>
  /\ currentDir = <<>>
  /\ detectPc = "idle"
  /\ detectResult = Undefined
  /\ consulted = <<>>

-----------------------------------------------------------------------------
(* Processes                                                                *)

\* The locals of a process that runs no operation, in the empty store.
IdleContext ==
  [pc |-> "idle", multishellPath |-> <<>>, request |-> "", versionRange |-> "",
   onFail |-> "", defaultVersion |-> "", targetVersion |-> "", versionArg |-> "",
   ret |-> NoRet, log |-> <<>>,
   entry |-> [versionsDir |-> {}, aliases |-> [n \in AliasNames |-> NoLink]]]

\* The locals of the running process.
Running ==
  [pc |-> pc, multishellPath |-> multishellPath, request |-> request,
   versionRange |-> versionRange, onFail |-> onFail,
   defaultVersion |-> defaultVersion, targetVersion |-> targetVersion,
   versionArg |-> versionArg, ret |-> ret, log |-> log, entry |-> entry]

\* options.home
Home == <<"/", "home", ".jrm">>

\* path.join(this.home, this.name, "versions")
GetVersionsDir(name) == Home \o <<name, "versions">>

\* path.join(this.home, this.name, "aliases")
GetAliasesDir(name) == Home \o <<name, "aliases">>

\* path.join(this.home, this.name, "multishells")
GetMultishellsDir(name) == Home \o <<name, "multishells">>

\* The runtime kinds other than Kind.
OtherKinds == {"bun", "deno"}

\* A session path of another kind: <multishells dir>/<ppid>_<time>.
OtherKindSession == GetMultishellsDir("bun") \o <<"1_1">>

Procs == {1, 2}

Other(p) == CHOOSE q \in Procs : q # p

\* The value of JRM_MULTISHELL_PATH_OF_<KIND> in the shell of a process.
SessionOf(p) == IF p = 1 THEN <<"/", "ms1">> ELSE <<"/", "ms2">>

\* The running process waits on a file operation, the remote or the
\* prompt, and the other process goes on.
Switch ==
  /\ self' = Other(self)
  /\ parked' = Running
  /\ pc' = parked.pc
  /\ multishellPath' = parked.multishellPath
  /\ request' = parked.request
  /\ versionRange' = parked.versionRange
  /\ onFail' = parked.onFail
  /\ defaultVersion' = parked.defaultVersion
  /\ targetVersion' = parked.targetVersion
  /\ versionArg' = parked.versionArg
  /\ ret' = parked.ret
  /\ log' = parked.log
  /\ entry' = parked.entry
  /\ UNCHANGED <<versionsDir, aliases, multishells, remoteRaw, detVars>>

-----------------------------------------------------------------------------
Init ==
  /\ versionsDir = {}
  /\ aliases = [n \in AliasNames |-> NoLink]
  /\ multishells = [p \in SessionPaths |-> Absent]
  /\ remoteRaw \in RemoteLists
  /\ pc = "idle"
  /\ multishellPath = <<>>
  /\ request = ""
  /\ versionRange = ""
  /\ onFail = ""
  /\ defaultVersion = ""
  /\ targetVersion = ""
  /\ versionArg = ""
  /\ ret = NoRet
  /\ log = <<>>
  /\ entry = [versionsDir |-> versionsDir, aliases |-> aliases]
  /\ fsDirs = [d \in Dirs |-> EmptyDir]
  /\ DetectIdle
  /\ parked = IdleContext
  /\ self = 1

Next ==
  \/ \E range \in InstallArgs, rawOk \in BOOLEAN : Install(range, rawOk)
  \/ \E aliasName \in AliasNameArgs, version \in AliasVersionArgs :
       Alias(aliasName, version)
  \/ \E aliasName \in UnaliasArgs : Unalias(aliasName)
  \/ \E version \in UninstallArgs : Uninstall(version)
  \/ \E versionOrAlias \in UseRequests, env \in EnvValues :
       UseStart(versionOrAlias, env)
  \/ \E detected \in DetectResults : UseResolve(detected)
  \/ UseDefault
  \/ UseInstalled
  \/ UseOnFail
  \/ \E typed \in RawAnswers : UseAsk(typed)
  \/ UseFetch
  \/ \E rawOk \in BOOLEAN : UseInstall(rawOk)
  \/ Return

Spec == Init /\ [][Next]_vars

-----------------------------------------------------------------------------
(* The Detector on its own, over every content of the directories           *)

DetectInit ==
  /\ versionsDir = {}
  /\ aliases = [n \in AliasNames |-> NoLink]
  /\ multishells = [p \in SessionPaths |-> Absent]
  /\ remoteRaw = <<>>
  /\ pc = "idle"
  /\ multishellPath = <<>>
  /\ request = ""
  /\ versionRange = ""
  /\ onFail = ""
  /\ defaultVersion = ""
  /\ targetVersion = ""
  /\ versionArg = ""
  /\ ret = NoRet
  /\ log = <<>>
  /\ entry = [versionsDir |-> versionsDir, aliases |-> aliases]
  /\ fsDirs \in [Dirs -> DirContents]
  /\ DetectIdle
  /\ parked = IdleContext
  /\ self = 1

DetectNext ==
  \/ \E dir \in Dirs : DetectStart(dir)
  \/ DetectVersionFile
  \/ DetectPackageJson
  \/ DetectParent
  \/ DetectReturn

\* A detection that has started goes on: nothing it waits for fails to
\* answer.
DetectSpec == DetectInit /\ [][DetectNext]_vars /\ WF_vars(DetectNext)

-----------------------------------------------------------------------------
(* Two shells, each with its own session, on one store                      *)

\* The remote as a failing fetch meets it: the fetch rejects, it is
\* answered with a status that is not ok (the tags read so far, none), or
\* it is answered with the tags.
FetchRemotes ==
  { FetchFailed,
    << >>,
    << <<"v", "3.0.0-beta.1">>, <<"v", "3.0.0">>, <<"v", "2.1.0">>,
       <<"v", "2.0.0">>, <<"v", "1.0.0">> >> }

FetchInit ==
  /\ versionsDir = {}
  /\ aliases = [n \in AliasNames |-> NoLink]
  /\ multishells = [p \in SessionPaths |-> Absent]
  /\ remoteRaw \in FetchRemotes
  /\ pc = "idle"
  /\ multishellPath = <<>>
  /\ request = ""
  /\ versionRange = ""
  /\ onFail = ""
  /\ defaultVersion = ""
  /\ targetVersion = ""
  /\ versionArg = ""
  /\ ret = NoRet
  /\ log = <<>>
  /\ entry = [versionsDir |-> versionsDir, aliases |-> aliases]
  /\ fsDirs = [d \in Dirs |-> EmptyDir]
  /\ DetectIdle
  /\ parked = IdleContext
  /\ self = 1

\* The operations of Spec against such a remote.
FetchSpec == FetchInit /\ [][Next]_vars

\* Names a versions directory may hold: version directories, among them
\* one of a prerelease, a version without the v, a v followed by no
\* version, and a file of the desktop.
ListEntries ==
  { <<"v", "10.0.0">>, <<"v", "9.0.0">>, <<"v", "2.0.0">>,
    <<"v", "3.0.0-beta.1">>, <<"", "2.1.0">>, <<"v", "next">>,
    <<"", ".DS_Store">> }

\* The versions directory with any of them, or not there.
ListDirs == {NoDirectory} \cup SUBSET ListEntries

ListInit ==
  /\ versionsDir \in ListDirs
  /\ aliases = [n \in AliasNames |-> NoLink]
  /\ multishells = [p \in SessionPaths |-> Absent]
  /\ remoteRaw = <<>>
  /\ pc = "idle"
  /\ multishellPath = <<>>
  /\ request = ""
  /\ versionRange = ""
  /\ onFail = ""
  /\ defaultVersion = ""
  /\ targetVersion = ""
  /\ versionArg = ""
  /\ ret = NoRet
  /\ log = <<>>
  /\ entry = [versionsDir |-> versionsDir, aliases |-> aliases]
  /\ fsDirs = [d \in Dirs |-> EmptyDir]
  /\ DetectIdle
  /\ parked = IdleContext
  /\ self = 1

ListNext ==
  \/ ListInstalled
  \/ Return

\* The installed versions of every such directory are listed.
ListSpec == ListInit /\ [][ListNext]_vars

ConcSessionPaths == {SessionOf(p) : p \in Procs}

ConcRemote == << <<"", "2.0.0">>, <<"v", "3.0.0-beta.1">>, <<"v", "2.1.0">> >>

ConcInit ==
  /\ versionsDir = {}
  /\ aliases = [n \in AliasNames |-> NoLink]
  /\ multishells = [p \in ConcSessionPaths \cup {OtherKindSession} |->
                      IF p \in ConcSessionPaths THEN Absent ELSE Placeholders]
  /\ remoteRaw = ConcRemote
  /\ pc = "idle"
  /\ multishellPath = <<>>
  /\ request = ""
  /\ versionRange = ""
  /\ onFail = ""
  /\ defaultVersion = ""
  /\ targetVersion = ""
  /\ versionArg = ""
  /\ ret = NoRet
  /\ log = <<>>
  /\ entry = [versionsDir |-> versionsDir, aliases |-> aliases]
  /\ fsDirs = [d \in Dirs |-> EmptyDir]
  /\ DetectIdle
  /\ parked = IdleContext
  /\ self = 1

ConcNext ==
  \/ \E range \in {"2.0.0", "^2.0.0"} : Install(range, TRUE)
  \/ Uninstall("2.1.0")
  \/ \E versionOrAlias \in {"", "2.0.0", "^2.0.0"} :
       UseStart(versionOrAlias, SessionOf(self))
  \/ \E detected \in {d \in DetectResults : d.onFail = "" /\ d.versionRange # "^3.0.0"} :
       UseResolve(detected)
  \/ UseDefault
  \/ UseInstalled
  \/ UseOnFail
  \/ \E typed \in {<<"y">>, <<"n">>} : UseAsk(typed)
  \/ UseFetch
  \/ UseInstall(TRUE)
  \/ Return
  \/ Switch

ConcSpec == ConcInit /\ [][ConcNext]_vars

\* The store after install 1.0.0, which seeds default, install 2.0.0,
\* install 2.1.0 and alias lts 2.0.0.
RaceStore ==
  [versionsDir |-> {VersionDirName("1.0.0"), VersionDirName("2.0.0"),
                    VersionDirName("2.1.0")},
   aliases |-> [n \in AliasNames |->
                  IF n = "default" THEN CreateVersionSymlink("1.0.0")
                  ELSE CreateVersionSymlink("2.0.0")]]

\* Two shells against the empty store, or against RaceStore.
RaceInit ==
  /\ \/ versionsDir = {} /\ aliases = [n \in AliasNames |-> NoLink]
     \/ versionsDir = RaceStore.versionsDir /\ aliases = RaceStore.aliases
  /\ multishells = [p \in ConcSessionPaths |-> Absent]
  /\ remoteRaw = ConcRemote
  /\ pc = "idle"
  /\ multishellPath = <<>>
  /\ request = ""
  /\ versionRange = ""
  /\ onFail = ""
  /\ defaultVersion = ""
  /\ targetVersion = ""
  /\ versionArg = ""
  /\ ret = NoRet
  /\ log = <<>>
  /\ entry = [versionsDir |-> versionsDir, aliases |-> aliases]
  /\ fsDirs = [d \in Dirs |-> EmptyDir]
  /\ DetectIdle
  /\ parked = IdleContext
  /\ self = 1

\* install and alias in the steps another process can come between, use
\* of an alias, and the switch from one process to the other.
RaceNext ==
  \/ \E range \in {"2.0.0", "2.1.0", "^2.0.0"} : InstallStart(range)
  \/ InstallRaw(TRUE)
  \/ InstallEnd
  \/ \E version \in {"2.0.0", "2.1.0"} : AliasStart("lts", version)
  \/ AliasSymlink
  \/ UseStart("lts", SessionOf(self))
  \/ UseResolve(CHOOSE d \in DetectResults : ~d.found)
  \/ UseDefault
  \/ UseInstalled
  \/ Return
  \/ Switch

RaceSpec == RaceInit /\ [][RaceNext]_vars

-----------------------------------------------------------------------------
(* use in a project directory                                               *)

\* process.cwd(): the directory use is run in.
ProjectDir == <<"a", "b">>

\* What the project directory and the directories above it hold: nothing,
\* a version file and a manifest in the project directory, a manifest in
\* the directory above, or both.
ProjectFiles ==
  LET padded == VersionFile(<<" ", "^3.0.0", " ", "\n">>)
      object == PackageJson("object", <<RuntimeEntry("node", "^2.0.0", "warn")>>)
      here   == [d \in Dirs |-> IF d = ProjectDir THEN DirWith(padded, object)
                                ELSE EmptyDir]
      above  == [d \in Dirs |-> IF d = Dirname(ProjectDir)
                                THEN DirWith(NoVersionFile, object)
                                ELSE EmptyDir]
      both   == [d \in Dirs |-> IF d = ProjectDir THEN DirWith(padded, NoPackageJson)
                                ELSE IF d = Dirname(ProjectDir)
                                THEN DirWith(NoVersionFile, object)
                                ELSE EmptyDir]
  IN  {[d \in Dirs |-> EmptyDir], here, above, both}

\* The remote of a project run.
ProjectRemote ==
  << <<"v", "3.0.0-beta.1">>, <<"v", "3.0.0">>, <<"v", "2.1.0">>,
     <<"v", "2.0.0">>, <<"v", "1.0.0">> >>

\* Mutation of UseDetects: the Detector is asked whatever was given.
UseDetectsAlways == TRUE

\* if (!versionOrAlias): use asks the Detector.
UseDetects == request = ""

\* What use takes from the answer of the Detector.
ToDetected(result) ==
  [found |-> result.found, versionRange |-> result.versionRange,
   onFail |-> result.onFail]

ProjectInit ==
  /\ versionsDir = {}
  /\ aliases = [n \in AliasNames |-> NoLink]
  /\ multishells = [p \in SessionPaths |-> Absent]
  /\ remoteRaw = ProjectRemote
  /\ pc = "idle"
  /\ multishellPath = <<>>
  /\ request = ""
  /\ versionRange = ""
  /\ onFail = ""
  /\ defaultVersion = ""
  /\ targetVersion = ""
  /\ versionArg = ""
  /\ ret = NoRet
  /\ log = <<>>
  /\ entry = [versionsDir |-> versionsDir, aliases |-> aliases]
  /\ fsDirs \in ProjectFiles
  /\ DetectIdle
  /\ parked = IdleContext
  /\ self = 1

\* The commands of one shell in the project directory; use awaits the
\* Detector where it asks it, and goes on with its answer.
ProjectNext ==
  \/ \E range \in {"2.0.0", "2.1.0"} : Install(range, TRUE)
  \/ Alias("lts", "2.0.0")
  \/ \E versionOrAlias \in {"", "2.1.0", "^2.0.0", "lts"}, env \in SessionPaths :
       detectPc = "idle" /\ UseStart(versionOrAlias, env)
  \/ pc = "resolve" /\ UseDetects /\ DetectStart(ProjectDir)
  \/ DetectVersionFile
  \/ DetectPackageJson
  \/ DetectParent
  \/ pc # "resolve" /\ DetectReturn
  \/ IF UseDetects
     THEN detectPc = "done" /\ UseResolve(ToDetected(detectResult))
     ELSE UseResolve(CHOOSE d \in DetectResults : ~d.found)
  \/ UseDefault
  \/ UseInstalled
  \/ UseOnFail
  \/ \E typed \in {<<"y">>, <<"n">>} : UseAsk(typed)
  \/ UseFetch
  \/ UseInstall(TRUE)
  \/ Return

ProjectSpec == ProjectInit /\ [][ProjectNext]_vars

-----------------------------------------------------------------------------
(* Vocabulary of the properties                                             *)

\* The installed versions of a versions directory, as a set.
InstalledSet(dir) == {e[2] : e \in {f \in dir : f[1] = "v" /\ f[2] \in VersionStrings}}

SomeSatisfies(S, range) == \E v \in S : SemverSatisfies(v, range)

\* The highest member of S that satisfies the range (S has one).
HighestSatisfying(S, range) ==
  CHOOSE v \in S :
    /\ SemverSatisfies(v, range)
    /\ \A w \in S : SemverSatisfies(w, range) => SemverCompare(w, v) <= 0

UsePcs == {"resolve", "default", "scan", "onFail", "ask", "fetch", "install"}

\* A use is running or has just finished.
InUse == pc \in UsePcs \/ (pc = "done" /\ ret.op = "use")

\* ... and it passed the environment checks and "0. Init".
UsePastInit == InUse /\ IsAbsolute(multishellPath) /\ ret.error # "FsError"

UseDone == pc = "done" /\ ret.op = "use"

\* use has returned a version.
UseReturnedVersion == UseDone /\ ret.status = "returned" /\ ret.value # ""

\* The version the session path of the running use links to ("" if none).
LinkVersion(ms) == IF ms.kind = "link" THEN ms.target[2] ELSE ""

SessionVersion == LinkVersion(multishells[multishellPath])

LogHas(what) == \E i \in DOMAIN log : log[i][1] = what

LogHasCall(what, arg) == \E i \in DOMAIN log : log[i][1] = what /\ log[i][2] = arg

\* The version of the default alias in a store ("" if there is none).
DefaultOf(dir, als) ==
  IF als["default"] # NoLink /\ als["default"] \in dir THEN als["default"][2] ELSE ""

-----------------------------------------------------------------------------
(* C1..C10: the decisions of use                                            *)

\* C1: with S the versions installed when use started, every version the
\* running use has made active for its session or has returned is a member
\* of S, unless no member of S satisfies the resolved range and the version
\* was installed by this use through the remote fallback.
C1_InstalledPreferred ==
  UsePastInit =>
    LET S == InstalledSet(entry.versionsDir)
        chosen == ({SessionVersion}
                     \cup (IF UseReturnedVersion THEN {ret.value} ELSE {})) \ {""}
    IN  \A V \in chosen :
          \/ V \in S
          \/ /\ versionRange # ""
             /\ ~SomeSatisfies(S, versionRange)
             /\ LogHasCall("installRaw", V)

\* C1 witness: use returned an installed version although the remote lists
\* a higher version, not installed, that satisfies the range too.
C1_Witness ==
  /\ UseReturnedVersion
  /\ ret.value \in InstalledSet(entry.versionsDir)
  /\ \E i \in DOMAIN remoteRaw :
       /\ remoteRaw[i][2] \notin InstalledSet(versionsDir)
       /\ SemverSatisfies(remoteRaw[i][2], versionRange)
       /\ SemverCompare(remoteRaw[i][2], ret.value) > 0

\* C2: when use returns a version V, V satisfies the resolved range, V's
\* directory is in the store and the session path links to V.
C2_ReturnedIsActive ==
  UseReturnedVersion =>
    /\ SemverSatisfies(ret.value, versionRange)
    /\ ret.value \in InstalledSet(versionsDir)
    /\ ActiveVersion(multishells[multishellPath], versionsDir) = ret.value

\* C2 witness: a version returned after this use installed it.
C2_Witness ==
  /\ UseReturnedVersion
  /\ LogHasCall("installRaw", ret.value)
  /\ ret.value \notin InstalledSet(entry.versionsDir)
  /\ InstalledSet(entry.versionsDir) # {}

\* C3: if the default alias exists and its version satisfies the resolved
\* range, use does not go on to the installed scan or the prompt, and it
\* returns the default version with the session linked to it.
C3_DefaultFirst ==
  LET d == DefaultOf(versionsDir, aliases)
  IN  (UsePastInit /\ versionRange # "" /\ d # "" /\ SemverSatisfies(d, versionRange)) =>
        /\ pc \in {"default", "done"}
        /\ pc = "done" =>
             /\ ret = Returned("use", d)
             /\ SessionVersion = d

\* C3 witness: 1.0.0, 2.0.0 and 2.1.0 installed, default 2.0.0, use(^2.0.0)
\* has returned 2.0.0.
C3_Witness ==
  /\ UseDone
  /\ InstalledSet(versionsDir) = {"1.0.0", "2.0.0", "2.1.0"}
  /\ DefaultOf(versionsDir, aliases) = "2.0.0"
  /\ request = "^2.0.0"
  /\ ret = Returned("use", "2.0.0")

\* C4: if the default alias is absent or its version does not satisfy the
\* resolved range, and some version installed when use started satisfies
\* it, use returns the highest such version with the session linked to it.
C4_HighestInstalled ==
  LET S == InstalledSet(entry.versionsDir)
      d == DefaultOf(entry.versionsDir, entry.aliases)
  IN  (UseDone /\ UsePastInit /\ versionRange # ""
         /\ ~(d # "" /\ SemverSatisfies(d, versionRange))
         /\ SomeSatisfies(S, versionRange)) =>
        /\ ret = Returned("use", HighestSatisfying(S, versionRange))
        /\ SessionVersion = HighestSatisfying(S, versionRange)
        /\ versionsDir = entry.versionsDir

\* C4 witness: the default does not satisfy the range, two installed
\* versions do, and use has returned.
C4_Witness ==
  /\ UseReturnedVersion
  /\ ~SemverSatisfies(DefaultOf(versionsDir, aliases), versionRange)
  /\ Cardinality({v \in InstalledSet(versionsDir) :
                    SemverSatisfies(v, versionRange)}) >= 2

\* An answer that is y or yes in any letter case.
IsYes(a) ==
  \/ Len(a) = 1 /\ a[1] \in {"y", "Y"}
  \/ Len(a) = 3 /\ a[1] \in {"y", "Y"} /\ a[2] \in {"e", "E"} /\ a[3] \in {"s", "S"}

\* The Prompter was asked and its answer was not a yes.
Declined == \E i \in DOMAIN log : log[i][1] = "ask" /\ ~IsYes(log[i][2])

\* No version installed when use started satisfies the resolved range.
NothingInstalledSatisfies ==
  /\ versionRange # ""
  /\ ~SomeSatisfies(InstalledSet(entry.versionsDir), versionRange)

StoreUnchanged == versionsDir = entry.versionsDir /\ aliases = entry.aliases

\* No release the remote lists satisfies the range.
NoRemoteCandidate(range) ==
  ~\E i \in DOMAIN remoteRaw :
     /\ remoteRaw[i][2] \in VersionStrings
     /\ Len(SemverParse(remoteRaw[i][2]).prerelease) = 0
     /\ SemverSatisfies(remoteRaw[i][2], range)

\* C5: during a use, installRaw is called only after the Prompter returned
\* y or yes (any letter case) as its trimmed answer; a use that ends with
\* nothing installed satisfying the range, the range being an explicit
\* argument or onFail being absent, error or download, has asked; and
\* after any other answer nothing is installed.
C5_PromptGatesInstall ==
  UsePastInit =>
    /\ \A i \in DOMAIN log :
         log[i][1] = "installRaw" =>
           \E j \in 1..(i - 1) : log[j][1] = "ask" /\ IsYes(log[j][2])
    /\ \A j \in DOMAIN log :
         log[j][1] = "ask" =>
           log[j][2] = <<>> \/ (log[j][2][1] # " " /\ log[j][2][Len(log[j][2])] # " ")
    /\ (pc = "done" /\ NothingInstalledSatisfies
          /\ (request # "" \/ onFail \in {"", "error", "download"})) => LogHas("ask")
    /\ Declined => ~LogHas("installRaw") /\ versionsDir = entry.versionsDir

\* C5 witness: use installed a version after a yes typed in capitals with
\* blanks around it.
C5_Witness ==
  /\ UseReturnedVersion
  /\ LogHasCall("installRaw", ret.value)
  /\ \E i \in DOMAIN log : log[i][1] = "ask" /\ log[i][2] = <<"Y", "E", "S">>

\* C6: when the range was detected, nothing installed satisfies it and
\* onFail is ignore or warn, use neither asks, fetches nor installs and
\* returns undefined with the store unchanged; with warn it has written one
\* warning naming the range to install, with ignore none.
C6_IgnoreAndWarn ==
  (UsePastInit /\ request = "" /\ onFail \in {"ignore", "warn"}
     /\ NothingInstalledSatisfies) =>
    /\ pc \notin {"ask", "fetch", "install"}
    /\ ~LogHas("ask") /\ ~LogHas("fetch") /\ ~LogHas("installRaw")
    /\ pc = "done" =>
         /\ ret = Returned("use", "")
         /\ StoreUnchanged
         /\ Cardinality({i \in DOMAIN log : log[i][1] = "warn"})
              = (IF onFail = "warn" THEN 1 ELSE 0)
         /\ \A i \in DOMAIN log : log[i][1] = "warn" => log[i][2] = versionRange

\* C6 witness: a use ended by the warn policy.
C6_Witness ==
  /\ UseDone
  /\ onFail = "warn"
  /\ LogHasCall("warn", "^3.0.0")
  /\ InstalledSet(versionsDir) # {}

\* C7: once the user has declined the question, use is over: it returns
\* undefined, and it has neither fetched the remote list nor installed
\* anything, so it does not fail with NoRemoteVersionSatisfies.
C7_DeclineEndsUse ==
  (UsePastInit /\ Declined) =>
    /\ pc = "done"
    /\ ret = Returned("use", "")
    /\ ~LogHas("fetch")
    /\ ~LogHas("installRaw")
    /\ StoreUnchanged

\* C7 witness: the user declined while no remote release satisfies the
\* range.
C7_Witness ==
  /\ UseDone
  /\ Declined
  /\ NothingInstalledSatisfies
  /\ NoRemoteCandidate(versionRange)

\* C8: when no remote release satisfies the range, install of a range, and
\* a use that went on to fetch the remote list, end with
\* NoRemoteVersionSatisfies, without a call of installRaw and with versions
\* and aliases as they were, whatever onFail is; and that error leaves the
\* store unchanged wherever it is raised.
C8_NoRemoteFails ==
  /\ (pc = "done" /\ ret.op = "install" /\ ~SemverValid(request)
        /\ NoRemoteCandidate(request)) =>
       /\ ret = Threw("install", "NoRemoteVersionSatisfies")
       /\ ~LogHas("installRaw")
       /\ StoreUnchanged
  /\ (UsePastInit /\ LogHas("fetch") /\ NoRemoteCandidate(versionRange)) =>
       /\ pc = "done"
       /\ ret = Threw("use", "NoRemoteVersionSatisfies")
       /\ ~LogHas("installRaw")
       /\ StoreUnchanged
  /\ (pc = "done" /\ ret.error = "NoRemoteVersionSatisfies") => StoreUnchanged

\* C8 witness: a use whose detected range came with onFail download failed
\* with NoRemoteVersionSatisfies after the user accepted.
C8_Witness ==
  /\ UseDone
  /\ onFail = "download"
  /\ ret = Threw("use", "NoRemoteVersionSatisfies")
  /\ \E i \in DOMAIN log : log[i][1] = "ask" /\ IsYes(log[i][2])

\* C9: a use whose request is not a valid range fails with AliasNotFound
\* when no alias of that name exists, and otherwise returns the version the
\* alias points to, with the session linked to it and nothing installed.
C9_AliasRequest ==
  (UseDone /\ UsePastInit /\ request # "" /\ ~SemverValidRange(request)) =>
    LET link == IF request \in DOMAIN entry.aliases THEN entry.aliases[request]
                ELSE NoLink
    IN  IF link # NoLink /\ link \in entry.versionsDir
        THEN /\ ret = Returned("use", link[2])
             /\ SessionVersion = link[2]
             /\ StoreUnchanged
             /\ ~LogHas("ask")
        ELSE ret = Threw("use", "AliasNotFound")

\* C9 witness: use(lts) returned the version of lts, which is neither the
\* default nor the highest installed version.
C9_Witness ==
  /\ UseDone
  /\ request = "lts"
  /\ ret.status = "returned"
  /\ ret.value # DefaultOf(versionsDir, aliases)
  /\ \E v \in InstalledSet(versionsDir) : SemverCompare(v, ret.value) > 0

\* C10: a use without a request for which the Detector finds nothing
\* returns undefined, has called neither the Prompter nor the Installer,
\* leaves versions and aliases as they were, and leaves the session as
\* init made it: linked to the default version, or holding placeholders.
C10_NothingDetected ==
  (UseDone /\ UsePastInit /\ request = "" /\ versionRange = "") =>
    /\ ret = Returned("use", "")
    /\ ~LogHas("ask") /\ ~LogHas("fetch") /\ ~LogHas("installRaw")
    /\ StoreUnchanged
    /\ LET d == DefaultOf(entry.versionsDir, entry.aliases)
       IN  IF d # ""
           THEN multishells[multishellPath] = [kind |-> "link", target |-> <<"v", d>>]
           ELSE multishells[multishellPath].kind = "placeholders"

\* C10 witness: such a use has returned, with versions installed.
C10_Witness ==
  /\ UseDone
  /\ UsePastInit
  /\ request = ""
  /\ versionRange = ""
  /\ LogHas("detect")
  /\ InstalledSet(versionsDir) # {}

-----------------------------------------------------------------------------
(* C11..C20: the environment of use, and the store                          *)

\* A step in which a use starts.
UseStarts == pc = "idle" /\ (pc' \in UsePcs \/ (pc' = "done" /\ ret'.op = "use"))

\* C11: a use that starts with the environment variable absent or empty
\* ends at once with EnvNotSet, and one that starts with a value that is no
\* absolute path ends at once with NotAbsolute; in both cases the step
\* leaves the session paths, the aliases and the versions as they were and
\* no call to the Detector, the Prompter or the Installer has been made.
C11_EnvChecked ==
  [][UseStarts =>
       /\ (multishellPath' = <<>>) =>
            (pc' = "done" /\ ret' = Threw("use", "EnvNotSet"))
       /\ (multishellPath' # <<>> /\ ~IsAbsolute(multishellPath')) =>
            (pc' = "done" /\ ret' = Threw("use", "NotAbsolute"))
       /\ (pc' = "done" /\ ret'.error \in {"EnvNotSet", "NotAbsolute"}) =>
            /\ UNCHANGED <<multishells, aliases, versionsDir>>
            /\ log' = <<>>]_vars

\* C11 witness: a use has failed with NotAbsolute in a store with versions,
\* an alias and a linked session, and one has failed with EnvNotSet.
C11_Witness ==
  /\ UseDone
  /\ \/ ret = Threw("use", "NotAbsolute") /\ multishellPath = <<"rel", "ms">>
     \/ ret = Threw("use", "EnvNotSet") /\ multishellPath = <<>>
  /\ ret.error = "NotAbsolute"
  /\ versionsDir # {}
  /\ aliases["lts"] # NoLink
  /\ \E p \in SessionPaths : multishells[p].kind = "link"

\* An alias resolves to an installed version of the store.
Resolves(link, dir) == link \in dir /\ link[1] = "v" /\ link[2] \in InstalledSet(dir)

\* C12: between operations, in every state reached from the empty store by
\* completed install, alias, unalias, uninstall and use operations, every
\* alias that exists, default included, resolves to an installed version.
C12_AliasesResolve ==
  pc \in {"idle", "done"} =>
    \A n \in DOMAIN aliases :
      aliases[n] # NoLink => Resolves(aliases[n], versionsDir)

\* C12 witness: an uninstall has removed the version lts pointed to, and
\* with it lts, while default still exists.
C12_Witness ==
  /\ pc = "done"
  /\ ret = Returned("uninstall", "true")
  /\ entry.aliases["lts"] = VersionDirName(versionArg)
  /\ aliases["lts"] = NoLink
  /\ aliases["default"] # NoLink

UninstallDone == pc = "done" /\ ret.op = "uninstall"

\* C13: an uninstall of a version V that was installed returns true; V's
\* directory is gone and every other entry of the versions directory is
\* as before; no alias that resolved to V resolves to V any more, and
\* each such alias other than default is gone; every alias that resolved
\* to another version, and every absent alias, is as before.
C13_UninstallCascade ==
  (UninstallDone /\ VersionDirName(versionArg) \in entry.versionsDir) =>
    /\ ret = Returned("uninstall", "true")
    /\ versionsDir = entry.versionsDir \ {VersionDirName(versionArg)}
    /\ \A n \in DOMAIN aliases :
         IF entry.aliases[n] = VersionDirName(versionArg)
         THEN /\ aliases[n] # VersionDirName(versionArg)
              /\ n # "default" => aliases[n] = NoLink
         ELSE aliases[n] = entry.aliases[n]

\* C13 witness: an uninstall removed a version lts pointed to while default
\* pointed to another version and a third version was installed.
C13_Witness ==
  /\ UninstallDone
  /\ entry.aliases["lts"] = VersionDirName(versionArg)
  /\ entry.aliases["default"] # NoLink
  /\ entry.aliases["default"] # VersionDirName(versionArg)
  /\ aliases["default"] = entry.aliases["default"]
  /\ Cardinality(versionsDir) = 2

\* The highest version of a non-empty set, by semver precedence.
Highest(S) == CHOOSE v \in S : \A w \in S : SemverCompare(w, v) <= 0

\* C14: after an uninstall of the version default pointed to, default
\* points to the highest version still installed, and there is no default
\* alias when no version is left.
C14_DefaultReassigned ==
  (UninstallDone /\ ret.value = "true"
     /\ entry.aliases["default"] = VersionDirName(versionArg)) =>
    IF InstalledSet(versionsDir) # {}
    THEN aliases["default"] = VersionDirName(Highest(InstalledSet(versionsDir)))
    ELSE aliases["default"] = NoLink

\* C14 witness: the version default pointed to has been uninstalled with
\* two versions left, and default moved to the higher of them.
C14_Witness ==
  /\ UninstallDone
  /\ ret.value = "true"
  /\ entry.aliases["default"] = VersionDirName(versionArg)
  /\ Cardinality(InstalledSet(versionsDir)) = 2
  /\ aliases["default"] # NoLink
  /\ \E w \in InstalledSet(versionsDir) : SemverCompare(w, aliases["default"][2]) < 0

AliasDone == pc = "done" /\ ret.op = "alias"

RECURSIVE FirstViolated(_, _, _, _)
FirstViolated(order, aliasName, version, dir) ==
  IF order = <<>> THEN ""
  ELSE LET violated ==
             CASE Head(order) = "valid"     -> ~SemverValid(version)
               [] Head(order) = "installed" -> VersionDirName(version) \notin dir
               [] Head(order) = "name"      -> SemverValidRange(aliasName)
           error ==
             CASE Head(order) = "valid"     -> "InvalidVersion"
               [] Head(order) = "installed" -> "NotInstalled"
               [] Head(order) = "name"      -> "InvalidAliasName"
       IN  IF violated THEN error
           ELSE FirstViolated(Tail(order), aliasName, version, dir)

\* C17 as claimed: the error of alias is that of the first violated check
\* in the order valid semver, installed, name.
C17_OrderAsClaimed ==
  AliasDone =>
    ret.error = FirstViolated(<<"valid", "installed", "name">>, request,
                              versionArg, entry.versionsDir)

\* C17: the error of alias is that of the first violated check in the
\* order: the version is valid semver, the name is no valid semver or
\* range, the version is installed (so a range-like name with a valid
\* version that is not installed reports InvalidAliasName).
C17_CheckOrder ==
  AliasDone =>
    ret.error = FirstViolated(<<"valid", "name", "installed">>, request,
                              versionArg, entry.versionsDir)

\* C17 witness: alias was given a range-like name and a valid version that
\* is not installed, and reported InvalidAliasName.
C17_Witness ==
  /\ AliasDone
  /\ SemverValidRange(request)
  /\ SemverValid(versionArg)
  /\ VersionDirName(versionArg) \notin versionsDir
  /\ ret = Threw("alias", "InvalidAliasName")

\* C18: an alias with a valid, installed version and a name that is no
\* semver or range succeeds; afterwards the name resolves to that version,
\* whatever it pointed to before, and every other alias and the versions
\* directory are as they were.
C18_AliasPoints ==
  (AliasDone /\ SemverValid(versionArg) /\ ~SemverValidRange(request)
     /\ VersionDirName(versionArg) \in entry.versionsDir) =>
    /\ ret = Returned("alias", "")
    /\ Exists(AliasLink(aliases, request), versionsDir)
    /\ GetVersionBySymlink(AliasLink(aliases, request)) = versionArg
    /\ \A n \in DOMAIN aliases \ {request} : aliases[n] = entry.aliases[n]
    /\ versionsDir = entry.versionsDir

\* C18 witness: alias has re-pointed lts from one installed version to
\* another while default points to a third.
C18_Witness ==
  /\ AliasDone
  /\ ret = Returned("alias", "")
  /\ request = "lts"
  /\ entry.aliases["lts"] # NoLink
  /\ entry.aliases["lts"] # aliases["lts"]
  /\ aliases["default"] \notin {NoLink, aliases["lts"], entry.aliases["lts"]}

UnaliasDone == pc = "done" /\ ret.op = "unalias"

\* C19: unalias of default fails with the store as it was; unalias of a
\* name that has no alias returns with the store as it was; unalias of a
\* name other than default that has an alias returns with that alias gone
\* and every other alias and the versions directory as they were.
C19_Unalias ==
  UnaliasDone =>
    LET link == AliasLink(entry.aliases, request)
    IN  IF request = "default"
        THEN ret = Threw("unalias", "DefaultReserved") /\ StoreUnchanged
        ELSE IF link = NoLink
        THEN ret = Returned("unalias", "") /\ StoreUnchanged
        ELSE /\ ret = Returned("unalias", "")
             /\ aliases[request] = NoLink
             /\ \A n \in DOMAIN aliases \ {request} : aliases[n] = entry.aliases[n]
             /\ versionsDir = entry.versionsDir

\* C19 witness: unalias has removed lts, which did not point where default
\* points, and default is still there.
C19_Witness ==
  /\ UnaliasDone
  /\ request = "lts"
  /\ entry.aliases["lts"] # NoLink
  /\ aliases["lts"] = NoLink
  /\ aliases["default"] \notin {NoLink, entry.aliases["lts"]}

InstallDone == pc = "done" /\ ret.op = "install"

\* C20: an install that returned true added one version directory; when
\* that version is then the only installed version, default points to it
\* and every other alias is as it was; when another version is installed
\* too, every alias, default included, is as it was.
C20_DefaultOnFirstInstall ==
  (InstallDone /\ ret.value = "true") =>
    /\ Cardinality(versionsDir \ entry.versionsDir) = 1
    /\ entry.versionsDir \subseteq versionsDir
    /\ LET new == CHOOSE e \in versionsDir \ entry.versionsDir : TRUE
       IN  IF InstalledSet(versionsDir) = {new[2]}
           THEN /\ aliases["default"] = VersionDirName(new[2])
                /\ \A n \in DOMAIN aliases \ {"default"} :
                     aliases[n] = entry.aliases[n]
           ELSE aliases = entry.aliases

\* C20 witness: an install has added a version higher than the one default
\* points to, and default has stayed.
C20_Witness ==
  /\ InstallDone
  /\ ret.value = "true"
  /\ aliases["default"] # NoLink
  /\ \E e \in versionsDir \ entry.versionsDir :
       /\ aliases["default"] # e
       /\ SemverCompare(e[2], aliases["default"][2]) > 0

-----------------------------------------------------------------------------
(* C21..C23: what install selects, and what install and uninstall leave      *)

\* The releases the remote lists that satisfy the range.
RemoteCandidates(range) ==
  {remoteRaw[i][2] : i \in {j \in DOMAIN remoteRaw :
     /\ remoteRaw[j][2] \in VersionStrings
     /\ Len(SemverParse(remoteRaw[j][2]).prerelease) = 0
     /\ SemverSatisfies(remoteRaw[j][2], range)}}

\* The versions whose directory the finished operation has created.
InstalledByOp == {e[2] : e \in versionsDir \ entry.versionsDir}

\* C21: an install whose argument is no exact version fails with
\* NoRemoteVersionSatisfies when no release of the remote satisfies it and
\* otherwise settles on the highest such release, whatever the order of
\* the remote: it passes no other version to installRaw and installs no
\* other; the version the remote fallback of use chooses is that highest
\* release too, and never a prerelease.
C21_HighestRemote ==
  /\ (InstallDone /\ ~SemverValid(request)) =>
       IF RemoteCandidates(request) = {}
       THEN ret = Threw("install", "NoRemoteVersionSatisfies")
       ELSE LET t == Highest(RemoteCandidates(request))
            IN  /\ \A i \in DOMAIN log : log[i][1] = "installRaw" => log[i][2] = t
                /\ InstalledByOp \subseteq {t}
                /\ ret.value = "true" => InstalledByOp = {t}
                /\ ret.value = "false" => t \in InstalledSet(entry.versionsDir)
                /\ ret.status = "threw" => ret.error = "InstallerFailed"
  /\ (UsePastInit /\ targetVersion # "") =>
       /\ targetVersion = Highest(RemoteCandidates(versionRange))
       /\ Len(SemverParse(targetVersion).prerelease) = 0

\* C21 witness: install of ^2.0.0 has installed 2.1.0 from a remote that
\* lists 2.0.0 first and a prerelease of a higher version before 2.1.0.
C21_Witness ==
  /\ InstallDone
  /\ request = "^2.0.0"
  /\ ret.value = "true"
  /\ InstalledByOp = {"2.1.0"}
  /\ Len(remoteRaw) = 3
  /\ remoteRaw[1][2] = "2.0.0"

\* The version an install with this argument settles on ("" if none).
InstallTarget(range) ==
  IF SemverValid(range) THEN range
  ELSE IF RemoteCandidates(range) = {} THEN ""
  ELSE Highest(RemoteCandidates(range))

\* C22: an install of a version that is installed returns false, calls
\* installRaw not at all and leaves versions and aliases as they were;
\* and from every store, an install that returns true followed by the
\* same install returns false the second time and leaves the store of the
\* first.
C22_InstallTwice ==
  /\ (InstallDone /\ InstallTarget(request) \in InstalledSet(entry.versionsDir)) =>
       /\ ret = Returned("install", "false")
       /\ ~LogHas("installRaw")
       /\ StoreUnchanged
  /\ pc = "idle" =>
       \A range \in InstallArgs :
         LET once  == InstallOutcome(range, versionsDir, aliases, remoteRaw, TRUE)
             twice == InstallOutcome(range, once.versionsDir, once.aliases,
                                     remoteRaw, TRUE)
         IN  once.value = "true" =>
               /\ twice.status = "returned"
               /\ twice.value = "false"
               /\ twice.versionsDir = once.versionsDir
               /\ twice.aliases = once.aliases

\* C22 witness: install of a range has returned false because the version
\* it resolves to was installed, with other versions and an alias around.
C22_Witness ==
  /\ InstallDone
  /\ ~SemverValid(request)
  /\ ret = Returned("install", "false")
  /\ Cardinality(versionsDir) > 1
  /\ aliases["lts"] # NoLink

\* C23: an uninstall of a valid version that is not installed returns
\* false, and an uninstall of a string that is no valid semver fails with
\* InvalidVersion; in both cases versions and aliases are as they were.
C23_UninstallRejects ==
  UninstallDone =>
    /\ ~SemverValid(versionArg) =>
         (ret = Threw("uninstall", "InvalidVersion") /\ StoreUnchanged)
    /\ (SemverValid(versionArg) /\ VersionDirName(versionArg) \notin entry.versionsDir) =>
         (ret = Returned("uninstall", "false") /\ StoreUnchanged)

\* C23 witness: uninstall has returned false for a version that is not in
\* a store that holds other versions and an alias.
C23_Witness ==
  /\ UninstallDone
  /\ ret = Returned("uninstall", "false")
  /\ versionsDir # {}
  /\ aliases["lts"] # NoLink

-----------------------------------------------------------------------------
(* C24..C28: the Detector                                                   *)

IsPrefix(p, q) == Len(p) <= Len(q) /\ SubSeq(q, 1, Len(p)) = p

\* A directory and its ancestors up to the root.
ChainOf(d) == {a \in Dirs : IsPrefix(a, d)}

\* The text of a file without its white space.
Text(content) == Join(SelectSeq(content, LAMBDA c : c \notin WhiteSpace))

\* The entries of a manifest that name the kind, by position.
Named(packageJson) ==
  IF packageJson.state = "json" /\ packageJson.runtime # "absent"
  THEN {i \in DOMAIN packageJson.entries : packageJson.entries[i].name = Kind}
  ELSE {}

FirstNamed(packageJson) ==
  packageJson.entries[CHOOSE i \in Named(packageJson) :
                        \A j \in Named(packageJson) : i <= j]

\* The match a directory yields: its readable version file, else the first
\* entry of its manifest for the kind.
MatchIn(d) ==
  LET versionFile == fsDirs[d].versionFile
      packageJson == fsDirs[d].packageJson
  IN  IF versionFile.state = "file" THEN Result(Text(versionFile.content), "")
      ELSE IF Named(packageJson) # {} /\ FirstNamed(packageJson).hasVersion
      THEN Result(FirstNamed(packageJson).version, FirstNamed(packageJson).onFail)
      ELSE Undefined

\* The directories on the chain of d that yield a match.
Matching(d) == {a \in ChainOf(d) : MatchIn(a).found}

\* The nearest of them.
Nearest(d) == CHOOSE a \in Matching(d) : \A b \in Matching(d) : Len(b) <= Len(a)

DetectDone == detectPc = "done"

\* C24: a detection started in a directory that holds a readable version
\* file and a manifest with an entry for the kind returns the text of the
\* version file without the white space around it, with no onFail, and
\* has not looked at the manifest.
C24_FileOverManifest ==
  (DetectDone /\ fsDirs[startDir].versionFile.state = "file"
     /\ Named(fsDirs[startDir].packageJson) # {}) =>
    /\ detectResult = Result(Text(fsDirs[startDir].versionFile.content), "")
    /\ detectResult.versionRange # FirstNamed(fsDirs[startDir].packageJson).version
    /\ \A i \in DOMAIN consulted : consulted[i].source # "packageJson"

\* C24 witness: a detection has ended in a directory whose version file
\* has white space around the range and whose manifest names the kind.
C24_Witness ==
  /\ DetectDone
  /\ startDir = <<"a", "b">>
  /\ fsDirs[startDir].versionFile.state = "file"
  /\ Len(fsDirs[startDir].versionFile.content) > 1
  /\ Named(fsDirs[startDir].packageJson) # {}
  /\ detectResult.found

\* C25: a detection returns the match of the nearest directory, from the
\* start directory upward, that yields one from either source, and
\* undefined when none does; it has looked at no directory above that one
\* and at none off the chain.
C25_NearestWins ==
  DetectDone =>
    IF Matching(startDir) = {}
    THEN detectResult = Undefined
    ELSE /\ detectResult = MatchIn(Nearest(startDir))
         /\ \A i \in DOMAIN consulted :
              /\ IsPrefix(Nearest(startDir), consulted[i].dir)
              /\ IsPrefix(consulted[i].dir, startDir)

\* C25 witness: the match came from the manifest of the parent of the
\* start directory, and the root holds a version file.
C25_Witness ==
  /\ DetectDone
  /\ startDir = <<"a", "b">>
  /\ Matching(startDir) = {<<"a">>, <<>>}
  /\ fsDirs[<<"a">>].versionFile.state = "absent"
  /\ fsDirs[<<>>].versionFile.state = "file"
  /\ detectResult.found

\* A source that cannot be read or parsed.
Failing(file) == file.state \in {"unreadable", "malformed"}

\* C26: a detection never ends with an error; a version file that cannot
\* be read does not keep the manifest of its directory from being looked
\* at, and a detection that met a source it could not read or parse still
\* returns the nearest match of the chain.
C26_FailuresSwallowed ==
  /\ ~detectResult.threw
  /\ DetectDone =>
       /\ \A i \in DOMAIN consulted :
            (consulted[i].source = "versionFile"
               /\ Failing(fsDirs[consulted[i].dir].versionFile)) =>
              \E j \in DOMAIN consulted :
                consulted[j] = Looked(consulted[i].dir, "packageJson")
       /\ (\E i \in DOMAIN consulted :
             \/ Failing(fsDirs[consulted[i].dir].versionFile)
             \/ (consulted[i].source = "packageJson"
                   /\ Failing(fsDirs[consulted[i].dir].packageJson))) =>
            detectResult = IF Matching(startDir) = {} THEN Undefined
                           ELSE MatchIn(Nearest(startDir))

\* C26 witness: neither file of the start directory could be read, and
\* the detection returned the match of an ancestor.
C26_Witness ==
  /\ DetectDone
  /\ Len(startDir) > 0
  /\ fsDirs[startDir].versionFile.state = "unreadable"
  /\ fsDirs[startDir].packageJson.state = "unreadable"
  /\ detectResult.found

\* The last file the detection looked at.
LastLooked == consulted[Len(consulted)]

\* C27: when a manifest that was looked at has an entry for the kind, the
\* first such entry, if its version is a string, is what the detection
\* returns: its version as the range and its onFail, none if it has none;
\* a manifest with no entry for the kind is not what a result comes from;
\* a result that comes from a version file has no onFail.
C27_ManifestEntry ==
  /\ detectPc # "idle" => \A i \in DOMAIN consulted :
       LET packageJson == fsDirs[consulted[i].dir].packageJson
       IN  (consulted[i].source = "packageJson" /\ packageJson.state = "json") =>
             IF Named(packageJson) = {}
             THEN ~(DetectDone /\ detectResult.found /\ i = Len(consulted))
             ELSE FirstNamed(packageJson).hasVersion =>
                    /\ DetectDone
                    /\ i = Len(consulted)
                    /\ detectResult = Result(FirstNamed(packageJson).version,
                                             FirstNamed(packageJson).onFail)
  /\ (DetectDone /\ detectResult.found /\ LastLooked.source = "versionFile") =>
       detectResult.onFail = ""

\* C27 witness: the result is the second element of an array, the first
\* entry for the kind, which has no onFail while a later one has.
C27_Witness ==
  /\ DetectDone
  /\ detectResult = Result("2.0.0", "")
  /\ LastLooked.source = "packageJson"
  /\ fsDirs[LastLooked.dir].packageJson.runtime = "array"
  /\ Cardinality(Named(fsDirs[LastLooked.dir].packageJson)) = 2

\* C28: a detection looks at no directory twice, and every detection that
\* has started ends; one that finds no match on the chain of its start
\* directory, the root included, ends with undefined, having looked at
\* each directory of the chain.
C28_WalkTerminates ==
  /\ [][(detectPc' = "versionFile") =>
          \A i \in DOMAIN consulted' : consulted'[i].dir # currentDir']_vars
  /\ [](DetectDone /\ Matching(startDir) = {} =>
          /\ detectResult = Undefined
          /\ {consulted[i].dir : i \in DOMAIN consulted} = ChainOf(startDir)
          /\ Len(consulted) = 2 * Cardinality(ChainOf(startDir)))
  /\ (detectPc = "versionFile") ~> DetectDone

\* C28 witness: a detection started two levels below the root has ended
\* at the root with nothing found.
C28_Witness ==
  /\ DetectDone
  /\ startDir = <<"a", "b">>
  /\ currentDir = <<>>
  /\ ~detectResult.found
  /\ Len(consulted) = 6

-----------------------------------------------------------------------------
(* C29: sessions                                                            *)

\* A step of the use of the running process.
UseStep ==
  /\ self' = self
  /\ \/ pc \in UsePcs
     \/ pc = "idle" /\ (pc' = "resolve" \/ (pc' = "done" /\ ret'.op = "use"))

\* Neither path is inside the other.
Apart(p, q) == ~IsPrefix(p, q) /\ ~IsPrefix(q, p)

\* The directories of a kind.
DirsOfKind(name) ==
  {GetVersionsDir(name), GetAliasesDir(name), GetMultishellsDir(name)}

\* The version a finished use of this context returned ("" if none).
ReturnedBy(context) ==
  IF context.pc = "done" /\ context.ret.op = "use" /\ context.ret.status = "returned"
  THEN context.ret.value
  ELSE ""

\* C29: with two shells running concurrently, what is at a session path
\* changes only in a step of a use of the shell whose environment names
\* that path, so never at the path of the other shell or of a session of
\* another kind; a step of a use changes the versions and aliases of the
\* store only where it installs; the directories of another kind are apart
\* from those of this kind and from the session paths; and when a use has
\* returned a version, the session of its shell links that version,
\* whatever the other shell did meanwhile.
C29_OwnSessionOnly ==
  /\ [][/\ \A p \in DOMAIN multishells :
             multishells'[p] # multishells[p] => UseStep /\ p = SessionOf(self)
        /\ (UseStep /\ (versionsDir' # versionsDir \/ aliases' # aliases)) =>
             pc = "install"]_vars
  /\ [](/\ \A name \in OtherKinds : \A d \in DirsOfKind(name) :
             /\ \A e \in DirsOfKind(Kind) : Apart(d, e)
             /\ \A q \in Procs : Apart(d, SessionOf(q))
        /\ ReturnedBy(Running) # "" =>
             LinkVersion(multishells[SessionOf(self)]) = ReturnedBy(Running)
        /\ ReturnedBy(parked) # "" =>
             LinkVersion(multishells[SessionOf(Other(self))]) = ReturnedBy(parked))

\* C29 witness: the use of one shell is under way with its session on
\* 2.0.0 while the use of the other shell has returned 2.1.0 and its
\* session links 2.1.0.
C29_Witness ==
  /\ pc \in UsePcs
  /\ multishellPath = SessionOf(self)
  /\ LinkVersion(multishells[SessionOf(self)]) = "2.0.0"
  /\ ReturnedBy(parked) = "2.1.0"
  /\ LinkVersion(multishells[SessionOf(Other(self))]) = "2.1.0"
  /\ multishells[OtherKindSession] = Placeholders

-----------------------------------------------------------------------------
(* C30: activation                                                          *)

\* C30: a use that has activated its default version at its start and
\* activates it again as the version it returns leaves the session path as
\* the first activation left it, the link to that version; and from
\* whatever is at a session path, a link to another version, placeholders
\* or nothing, activating an installed version twice gives what activating
\* it once gives, the link to that version.
C30_ActivationIdempotent ==
  /\ [][(pc = "default" /\ pc' = "done" /\ ret'.status = "returned") =>
          /\ multishells' = multishells
          /\ multishells'[multishellPath] = SessionLink(defaultVersion)]_vars
  /\ [](\A p \in DOMAIN multishells : \A version \in InstalledSet(versionsDir) :
          /\ Activate(Activate(multishells[p], version), version)
               = Activate(multishells[p], version)
          /\ Activate(multishells[p], version) = SessionLink(version))

\* C30 witness: a use has returned the default version, which it activated
\* at its start and again when it chose it, and the session links it while
\* another version is installed.
C30_Witness ==
  /\ UseDone
  /\ UsePastInit
  /\ defaultVersion # ""
  /\ ret = Returned("use", defaultVersion)
  /\ multishells[multishellPath] = SessionLink(defaultVersion)
  /\ \E version \in InstalledSet(versionsDir) : version # defaultVersion

-----------------------------------------------------------------------------
(* C31: a failed fetch                                                      *)

\* The fetch of the tag list failed: it rejected, or it was answered with
\* a status that is not ok.
FetchFails == remoteRaw \in {FetchFailed, << >>}

\* The calls of the remote list an operation made.
Fetches == {i \in DOMAIN log : log[i][1] = "fetch"}

\* C31: an install of a range that is no exact version, and a use that
\* went to the remote after its question was accepted, whose fetch of the
\* remote list failed, end with NoRemoteVersionSatisfies, with no call of
\* installRaw, with versions and aliases as they were and with one fetch.
C31_FailedFetchIsEmptyList ==
  /\ (pc = "done" /\ ret.op = "install" /\ ~SemverValid(request) /\ FetchFails) =>
       /\ ret = Threw("install", "NoRemoteVersionSatisfies")
       /\ ~LogHas("installRaw")
       /\ StoreUnchanged
       /\ Cardinality(Fetches) = 1
  /\ (UsePastInit /\ LogHas("fetch") /\ FetchFails) =>
       /\ pc = "done"
       /\ ret = Threw("use", "NoRemoteVersionSatisfies")
       /\ ~LogHas("installRaw")
       /\ StoreUnchanged
       /\ Cardinality(Fetches) = 1

-----------------------------------------------------------------------------
(* C32: the installed versions                                              *)

ListDone == pc = "done" /\ ret.op = "list"

\* The versions a finished list returned, in its order.
Listed == [i \in DOMAIN log |-> log[i][2]]

\* The entries of a directory that are a v followed by a valid version.
VersionEntries(dir) ==
  {e \in dir : e[1] = "v" /\ e[2] \in VersionStrings \cup ListedStrings}

\* C32: a list returns, without an error, exactly the names of the entries
\* of the versions directory that are a v followed by a valid version,
\* each once and without the v, every one of higher semver precedence than
\* those after it, so 10.0.0 before 9.0.0; every other entry is left out;
\* and it returns the empty sequence when the directory is not there.
C32_ListInstalled ==
  ListDone =>
    /\ ret.status = "returned"
    /\ Range(Listed) = {e[2] : e \in VersionEntries(versionsDir)}
    /\ Len(Listed) = Cardinality(VersionEntries(versionsDir))
    /\ \A i, j \in DOMAIN Listed :
         i < j => SemverCompare(Listed[i], Listed[j]) > 0
    /\ \A i, j \in DOMAIN Listed :
         (Listed[i] = "10.0.0" /\ Listed[j] = "9.0.0") => i < j
    /\ versionsDir = NoDirectory => Listed = <<>>

\* C32 witness: of a directory that holds v9.0.0, v10.0.0, v2.0.0 and the
\* three names that are no version directory, the list is 10.0.0, 9.0.0,
\* 2.0.0.
C32_Witness ==
  /\ ListDone
  /\ {<<"", "2.1.0">>, <<"v", "next">>, <<"", ".DS_Store">>} \subseteq versionsDir
  /\ Listed = <<"10.0.0", "9.0.0", "2.0.0">>

-----------------------------------------------------------------------------
(* C33: the baseline                                                        *)

\* What the start of a use leaves at the session path: the link to the
\* default version the store had, placeholders when it had none.
Baseline ==
  LET d == DefaultOf(entry.versionsDir, entry.aliases)
  IN  IF d # "" THEN SessionLink(d) ELSE Placeholders

\* C33: a use whose environment variable holds an absolute path has the
\* baseline at its session path from its first step on and until it
\* activates the version it returns; so a use that returned undefined or
\* failed with AliasNotFound has left the baseline there, whatever was
\* there before.
C33_BaselineFirst ==
  /\ (InUse /\ IsAbsolute(multishellPath)
        /\ ~(UseDone /\ ret.status = "returned" /\ ret.value # "")) =>
       multishells[multishellPath] = Baseline
  /\ (UseDone /\ IsAbsolute(multishellPath)
        /\ (ret = Returned("use", "") \/ ret = Threw("use", "AliasNotFound"))) =>
       multishells[multishellPath] = Baseline

-----------------------------------------------------------------------------
(* C34: the default alias                                                   *)

\* The default alias is there: the link and the directory it points to.
DefaultExists == Exists(aliases["default"], versionsDir)

-----------------------------------------------------------------------------
(* C35..C37: two processes                                                  *)

\* This context has finished an install that returned true and had the
\* empty store before it.
InstalledFirst(context) ==
  /\ context.pc = "done"
  /\ context.ret = Returned("install", "true")
  /\ context.entry.versionsDir = {}

\* C35: when two installs of two different versions, both begun on the
\* empty store by two processes, have both returned true, the default
\* alias exists and resolves to one of the two versions.
C35_DefaultAfterTwoInstalls ==
  (InstalledFirst(Running) /\ InstalledFirst(parked)
     /\ targetVersion # parked.targetVersion) =>
    /\ DefaultExists
    /\ GetVersionBySymlink(aliases["default"]) \in {targetVersion, parked.targetVersion}

\* The step is an uninstall, by the running process, that removed a version.
Uninstalls ==
  /\ self' = self
  /\ pc = "idle" /\ pc' = "done" /\ ret' = Returned("uninstall", "true")

\* The session path of this context is a link to a version directory that
\* is not there.
Dangling(context) ==
  /\ context.multishellPath \in DOMAIN multishells
  /\ multishells[context.multishellPath].kind = "link"
  /\ multishells[context.multishellPath].target \notin versionsDir

\* C36: nothing guards a version against removal.  A use that has taken
\* the default version V and found it to satisfy the range links the
\* session to V and returns V whatever has happened to the directory of V
\* since; and an uninstall changes no session path, so a session that has V
\* active is left with a link to a directory that is gone.
C36_UninstallRacesUse ==
  [][/\ (/\ pc = "default" /\ self' = self
         /\ defaultVersion # "" /\ SemverSatisfies(defaultVersion, versionRange)) =>
          /\ pc' = "done"
          /\ ret' = Returned("use", defaultVersion)
          /\ multishells'[multishellPath] = SessionLink(defaultVersion)
     /\ Uninstalls =>
          /\ multishells' = multishells
          /\ \A p \in DOMAIN multishells :
               LinkVersion(multishells[p]) = versionArg' =>
                 /\ multishells'[p].kind = "link"
                 /\ multishells'[p].target \notin versionsDir']_vars

\* A use has returned V after the other process uninstalled V, and its
\* session is a link to the directory that is gone.
C36_Witness ==
  /\ pc = "done"
  /\ ret = Returned("use", "2.1.0")
  /\ Dangling(Running)
  /\ multishells[multishellPath] = SessionLink("2.1.0")
  /\ parked.pc = "done"
  /\ parked.ret = Returned("uninstall", "true")
  /\ parked.versionArg = "2.1.0"

\* The step starts or ends an alias command of the running process.
AliasSteps ==
  /\ self' = self
  /\ pc = "idle"
  /\ pc' = "aliasLink" \/ (pc' = "done" /\ ret'.op = "alias")

\* This context is in an alias command on a name that had a link when the
\* command began, after the removal of that link and before fs.symlink.
Repointing(context, name) ==
  /\ context.pc = "aliasLink"
  /\ context.request = name
  /\ context.entry.aliases[name] # NoLink

\* C37: a link is replaced by a remove step and a create step.  An alias
\* command that passes its checks leaves the alias without a link until its
\* second step; and a use of the alias name that resolves it while the
\* other process is between the two steps of re-pointing it, the link
\* removed and not yet made again, fails with AliasNotFound.
C37_RepointRacesUse ==
  [][/\ (AliasSteps /\ ret'.status # "threw") =>
          /\ pc' = "aliasLink"
          /\ aliases'[request'] = NoLink
     /\ (/\ pc = "resolve" /\ self' = self
         /\ request \in AliasNames
         /\ Repointing(parked, request)
         /\ aliases[request] = NoLink) =>
          ret' = Threw("use", "AliasNotFound")]_vars

\* A use of lts has failed with AliasNotFound in a store that had lts from
\* the start (the store with 1.0.0, which no command here installs or
\* removes), and the other process has re-pointed lts meanwhile: lts has
\* a link now and had one when the re-pointing began.
C37_Witness ==
  /\ pc = "done"
  /\ request = "lts"
  /\ ret = Threw("use", "AliasNotFound")
  /\ VersionDirName("1.0.0") \in versionsDir
  /\ parked.pc = "done"
  /\ parked.ret = Returned("alias", "")
  /\ parked.request = "lts"
  /\ parked.entry.aliases["lts"] # NoLink
  /\ Exists(AliasLink(aliases, "lts"), versionsDir)

-----------------------------------------------------------------------------
(* C38: an explicit request                                                 *)

\* The Detector would find a range for the project directory.
ProjectPinned ==
  \E d \in Dirs :
    /\ IsPrefix(d, ProjectDir)
    /\ \/ fsDirs[d].versionFile.state = "file"
       \/ fsDirs[d].packageJson.state = "json"

\* The range an explicit request stands for in this store ("" for an alias
\* that has no link).
ExplicitRange ==
  IF SemverValidRange(request) THEN request
  ELSE IF Exists(AliasLink(aliases, request), versionsDir)
  THEN GetVersionBySymlink(AliasLink(aliases, request))
  ELSE ""

\* C38: a use that was given a range or an alias does not consult the
\* Detector.  No detection runs during it and no step of it changes what
\* the Detector has looked at or answered; it makes no detect call; and
\* the two locals the answer of the Detector goes into carry nothing of the
\* project's files: onFail stays absent and the range is that of the
\* request.  What it returns and the state it leaves are thus those of the
\* store, the session, the remote and the answers alone.
C38_ExplicitSkipsDetector ==
  /\ []((InUse /\ request # "") =>
          /\ detectPc = "idle"
          /\ ~LogHas("detect")
          /\ onFail = ""
          /\ versionRange \in {"", ExplicitRange})
  /\ [][(UseStep /\ request' # "") => UNCHANGED detVars]_vars

\* A use of 2.1.0 has returned 2.1.0 in a project whose version file asks
\* for ^3.0.0.
C38_Witness ==
  /\ UseDone
  /\ request = "2.1.0"
  /\ ret = Returned("use", "2.1.0")
  /\ ProjectPinned
  /\ Catch(DetectByVersionFile(fsDirs[ProjectDir].versionFile)) = Result("^3.0.0", "")
  /\ detectPc = "idle"

-----------------------------------------------------------------------------
(* C39: install of an exact version                                         *)

\* The versions install handed to installRaw.
RawInstalled == {log[i][2] : i \in {j \in DOMAIN log : log[j][1] = "installRaw"}}

\* C39: install of an exact version does not fetch the remote list.  When
\* the version was installed it returns false and calls nothing; otherwise
\* its one call is installRaw with that version, whether the version has a
\* prerelease tag or is among the remote versions or not.  An argument
\* that is no exact version is looked up: the list is fetched, and what is
\* handed to installRaw is a remote version without prerelease tag that
\* satisfies the argument.
C39_ExactVersionNotLookedUp ==
  InstallDone =>
    IF SemverValid(request)
    THEN /\ ~LogHas("fetch")
         /\ ret.error # "NoRemoteVersionSatisfies"
         /\ IF request \in InstalledSet(entry.versionsDir)
            THEN ret = Returned("install", "false") /\ log = <<>>
            ELSE log = <<Call("installRaw", request)>>
    ELSE /\ LogHas("fetch")
         /\ \A version \in RawInstalled :
              /\ version \in Range(GetRemoteVersions(remoteRaw))
              /\ Len(SemverParse(version).prerelease) = 0
              /\ SemverSatisfies(version, request)

\* install("3.0.0-beta.1") has installed that version from a remote that
\* does not list it.
C39_Witness ==
  /\ InstallDone
  /\ request = "3.0.0-beta.1"
  /\ ret = Returned("install", "true")
  /\ log = <<Call("installRaw", "3.0.0-beta.1")>>
  /\ VersionDirName("3.0.0-beta.1") \in versionsDir
  /\ VersionDirName("3.0.0-beta.1") \notin Range(remoteRaw)

=============================================================================
